---- MODULE Spec2Model ----
(***************************************************************************)
(* A model of py-ad-ldap (src/ad_ldap/ad_ldap.py): the Domain object, the  *)
(* ADObject entry with its properties / _property_snapshot pair, and the   *)
(* Group membership operations.                                            *)
(*                                                                         *)
(* Values.  A directory attribute is a Python list; a list is modelled as  *)
(* a sequence, and each element as a pair <<type, text>> where type is     *)
(* "str", "bytes" or "none" (the Python None).  Python 3 never finds a str *)
(* equal to a bytes object, so 'A' and b'A' are different elements here as *)
(* they are in the program.  python-ldap hands attribute values over as    *)
(* bytes and distinguished names (the record key) as str.                  *)
(*                                                                         *)
(* Object identity.  Two dictionary slots may hold the very same list      *)
(* object; `aliased` is the set of attribute names whose list object is    *)
(* shared by properties and _property_snapshot, so that an in-place change *)
(* of the one is a change of the other.                                    *)
(***************************************************************************)
EXTENDS Integers, Sequences, FiniteSets, TLC

\* ------------------------------------------------------------------ bounds
\* longest member list the model lets a Group operation build
MaxMembers == 2
\* most page responses the server gives to one search
MaxPages == 3
\* most records the server puts into one page
MaxPageLen == 2

\* the longest text a caller passes to a lookup
MaxText == 2

\* ------------------------------------------------------------------ program constants
\* Domain.Search: page_size
page_size == 500

\* constants.ADS_UF_ACCOUNTDISABLE
ADS_UF_ACCOUNTDISABLE == 2
\* constants.ADS_UF_LOCKOUT
ADS_UF_LOCKOUT == 16
\* constants.ADS_UF_DONT_EXPIRE_PASSWD
ADS_UF_DONT_EXPIRE_PASSWD == 65536
\* constants.ADS_UF_PASSWORD_EXPIRED
ADS_UF_PASSWORD_EXPIRED == 8388608

VARIABLES
  connected,    \* Domain._connected
  ldap_obj,     \* Domain._ldap: "None", "open" (bound) or "closed" (unbound)
  properties,   \* ADObject.properties: attribute name -> list
  snapshot,     \* ADObject._property_snapshot: attribute name -> list
  aliased,      \* names whose list object is shared by properties and snapshot
  server,       \* the attributes the directory server holds for the entry
  local_only,   \* names assigned by the caller and never fetched nor committed
  last,         \* the last operation: its name, its result, its exception, its commit
                \* and the number of names a Group operation could not resolve
  pc,           \* Domain.Search: "idle", "result3" (line 272) or "search_ext" (line 285)
  params,       \* Domain.Search: the arguments of the call in progress
  lc_cookie,    \* Domain.Search: lc.cookie, 0 for the empty cookie
  raw,          \* Domain.Search: the records accumulated so far
  served,       \* the records the server has returned to the search in progress
  requests,     \* the requests the current operation has sent to the store client
  results,      \* what the last Domain.Search returned
  arg,          \* the argument of the call being made
  peer_properties,  \* a second ADObject: its properties
  peer_snapshot,    \* a second ADObject: its _property_snapshot
  held_by       \* who holds the dict that is the entry's properties: "entry" (the
                \* entry alone), "caller" (the caller too) or "peer" (the caller and
                \* the second entry too)

entryVars == <<properties, snapshot, aliased, server, local_only>>
searchVars == <<pc, params, lc_cookie, raw, served, requests, results>>
peerVars == <<arg, peer_properties, peer_snapshot, held_by>>
vars == <<connected, ldap_obj, entryVars, last, searchVars, peerVars>>

\* ADFileTimeToUnix: the 100 ns intervals of a second
TicksPerSecond == 10000000
\* the bits of the significand of a Python float
Mantissa == 53

\* ------------------------------------------------------------------ values
Str(t) == <<"str", t>>
Bytes(t) == <<"bytes", t>>
NoneElt == <<"none", "">>

\* a Python int
IntElt(v) == <<"int", v>>
\* the exception a conversion raises instead of returning
Raise(exc) == <<"raise", exc>>
Raises(e) == e[1] = "raise"

\* ToStr: a str is returned as it is, anything else is asked to decode itself,
\* which only bytes can
ToStr(e) ==
  IF e[1] = "str" THEN e
  ELSE IF e[1] = "bytes" THEN Str(e[2])
  ELSE Raise("AttributeError")

\* ToBytes: a str is encoded, bytes are returned as they are
ToBytes(e) == IF e[1] = "str" THEN Bytes(e[2]) ELSE e

Range(s) == {s[i] : i \in 1..Len(s)}
\* the distinguished names a member list denotes, whatever the Python type
DNsOf(s) == {s[i][2] : i \in 1..Len(s)}
SeqMap(Op(_), s) == [i \in 1..Len(s) |-> Op(s[i])]
\* every list whose elements are exactly the set S, each once (list(a_set))
ListsOf(S) == {s \in [1..Cardinality(S) -> S] : Range(s) = S}
Restrict(f, S) == [p \in S |-> f[p]]
Override(f, g) == [p \in DOMAIN f \cup DOMAIN g |-> IF p \in DOMAIN g THEN g[p] ELSE f[p]]
EmptyMap == [p \in {} |-> <<>>]

\* bitwise and, or and exclusive or of two naturals
RECURSIVE BitAnd(_, _)
BitAnd(a, b) ==
  IF a = 0 \/ b = 0 THEN 0
  ELSE (a % 2) * (b % 2) + 2 * BitAnd(a \div 2, b \div 2)

\* an or that forgets the bits of its first argument
BitOrLossy(a, b) == b

RECURSIVE BitOr(_, _)
BitOr(a, b) ==
  IF a = 0 THEN b
  ELSE IF b = 0 THEN a
  ELSE (IF a % 2 = 1 \/ b % 2 = 1 THEN 1 ELSE 0) + 2 * BitOr(a \div 2, b \div 2)

RECURSIVE BitXor(_, _)
BitXor(a, b) ==
  IF a = 0 THEN b
  ELSE IF b = 0 THEN a
  ELSE (((a % 2) + (b % 2)) % 2) + 2 * BitXor(a \div 2, b \div 2)

\* a BitmaskBool that compares the two numbers
BitmaskBool_Equal(bitmask, value) == bitmask = value

\* BitmaskBool
BitmaskBool(bitmask, value) == BitAnd(bitmask, value) # 0

\* ------------------------------------------------------------------ the directory
GroupDN == "G"
MemberDNs == {"A", "B"}
Names == {"a", "b", "x"}
\* what a search for sAMAccountName=<name> finds: "a" and "b" exist, "x" does not
Directory(name) == CASE name = "a" -> "A" [] name = "b" -> "B" [] OTHER -> ""

MANDATORY_PROPS_DEFAULT == {"distinguishedName", "objectClass", "objectCategory", "name"}

\* the lists of names handed to a Group operation: none, one name, two names
\* in both orders, a name twice, a name beside one that does not resolve
NameLists ==
  {<<>>, <<"a">>, <<"b">>, <<"x">>, <<"a", "b">>, <<"b", "a">>, <<"a", "a">>,
   <<"a", "x">>, <<"x", "a">>}

\* ------------------------------------------------------------------ the store client
\* what the store client can answer to a modify request
StoreOutcomes == {"ack", "nack", "error"}

\* a list as it goes over the wire: None is no value, every value is bytes
Wire(list) == SeqMap(ToBytes, SelectSeq(list, LAMBDA e : e # NoneElt))

\* a directory attribute holds each value once: the server refuses a list
\* that repeats one
ServerAccepts(new) == \A p \in DOMAIN new : Cardinality(Range(Wire(new[p]))) = Len(Wire(new[p]))

\* the entry after the server has applied a modification: writing 0 to
\* lockoutTime makes the directory clear the lockout bit it computes
ServerModify(srv, new) ==
  LET s1 == Override(srv, [p \in DOMAIN new |-> Wire(new[p])])
      c == "msDS-User-Account-Control-Computed"
  IN IF /\ "lockoutTime" \in DOMAIN new
        /\ Wire(new["lockoutTime"]) = <<Bytes(0)>>
        /\ c \in DOMAIN s1
     THEN [s1 EXCEPT ![c] = <<Bytes(BitAnd(@[1][2], BitXor(@[1][2], ADS_UF_LOCKOUT)))>>]
     ELSE s1

\* the record the server returns for the entry when asked for the attributes
\* req: an attribute with no value does not exist and is left out
ServerRecord(srv, req) == Restrict(srv, {p \in req \cap DOMAIN srv : srv[p] # <<>>})

\* ------------------------------------------------------------------ Domain
\* Domain.Search, lines 295-304: the entry built from one raw record
PostProcess(dn, rec) ==
  Override(Override([p \in MANDATORY_PROPS_DEFAULT |-> <<Str("")>>], rec),
           [p \in {"distinguishedName"} |-> <<Str(dn)>>])

\* Domain.GetObjectByName: the first entry of the search, or nothing ("")
GetObjectByName(name) == Directory(name)

\* a Domain.UpdateObject that is refused when the directory no longer holds
\* the values the changeset was computed against
UpdateObject_Checked(conn, srv, dn, old, new, outcome) ==
  IF ~conn
  THEN [ret |-> "", exc |-> "ADDomainNotConnectedError", server |-> srv, sent |-> <<>>]
  ELSE IF /\ outcome = "ack"
          /\ ServerAccepts(new)
          /\ \A p \in DOMAIN old \cap DOMAIN srv : Wire(old[p]) = srv[p]
  THEN [ret |-> "True", exc |-> "",
        server |-> IF dn = GroupDN THEN ServerModify(srv, new) ELSE srv,
        sent |-> <<"modify_s">>]
  ELSE IF outcome = "error"
  THEN [ret |-> "", exc |-> "LDAPError", server |-> srv, sent |-> <<"modify_s">>]
  ELSE [ret |-> "None", exc |-> "", server |-> srv, sent |-> <<"modify_s">>]

\* Domain.UpdateObject
UpdateObject(conn, srv, dn, old, new, outcome) ==
  IF ~conn
  THEN [ret |-> "", exc |-> "ADDomainNotConnectedError", server |-> srv, sent |-> <<>>]
  ELSE IF outcome = "ack" /\ ServerAccepts(new)
  THEN [ret |-> "True", exc |-> "",
        server |-> IF dn = GroupDN THEN ServerModify(srv, new) ELSE srv,
        sent |-> <<"modify_s">>]
  ELSE IF outcome = "error"
  THEN [ret |-> "", exc |-> "LDAPError", server |-> srv, sent |-> <<"modify_s">>]
  ELSE [ret |-> "None", exc |-> "", server |-> srv, sent |-> <<"modify_s">>]

\* a Domain.DeleteObject that does not look at _connected
DeleteObjectUnchecked(conn, srv, dn, outcome) ==
  IF outcome = "ok"
  THEN [ret |-> "None", exc |-> "", server |-> IF dn = GroupDN THEN EmptyMap ELSE srv,
        sent |-> <<"delete_s">>]
  ELSE [ret |-> "", exc |-> "LDAPError", server |-> srv, sent |-> <<"delete_s">>]

\* Domain.DeleteObject
DeleteObject(conn, srv, dn, outcome) ==
  IF ~conn
  THEN [ret |-> "", exc |-> "ADDomainNotConnectedError", server |-> srv, sent |-> <<>>]
  ELSE IF outcome = "ok"
  THEN [ret |-> "None", exc |-> "", server |-> IF dn = GroupDN THEN EmptyMap ELSE srv,
        sent |-> <<"delete_s">>]
  ELSE [ret |-> "", exc |-> "LDAPError", server |-> srv, sent |-> <<"delete_s">>]

\* Domain.NewObject
NewObject(conn, srv, dn, props, outcome) ==
  IF ~conn
  THEN [ret |-> "", exc |-> "ADDomainNotConnectedError", server |-> srv, sent |-> <<>>]
  ELSE IF outcome = "ok"
  THEN [ret |-> "None", exc |-> "",
        server |-> IF dn = GroupDN THEN [q \in DOMAIN props |-> Wire(props[q])] ELSE srv,
        sent |-> <<"add_s">>]
  ELSE [ret |-> "", exc |-> "LDAPError", server |-> srv, sent |-> <<"add_s">>]

\* ---- Domain.Search, the paging loop
\* a request to the store client and how the client answered it
Req(op, base, scope, attrs, cookie, reply) ==
  [op |-> op, base |-> base, scope |-> scope, attrs |-> attrs,
   size |-> IF op = "search_ext" THEN page_size ELSE 0,
   cookie |-> cookie, reply |-> reply]
Call(op) == Req(op, "", "", "", 0, "ok")
Calls(ops) == [i \in 1..Len(ops) |-> Call(ops[i])]

\* the i-th record of the server's result: every third one has no key (a
\* referral), and of the others every second one comes without its name
Record(i) ==
  [key |-> IF i % 3 = 2 THEN 0 ELSE i,
   attrs |-> IF i % 2 = 1 THEN [p \in {"name"} |-> <<Bytes("n")>>] ELSE EmptyMap]

\* the position a cookie stands for: the server resumes after the records it
\* had returned when it issued the cookie, and starts over on the empty cookie
Position(cookie) == IF cookie = 0 THEN 0 ELSE cookie - 1
CookieAt(pos) == pos + 1

LastSearchExt == 
  LET idx == {i \in 1..Len(requests) : requests[i].op = "search_ext"}
  IN requests[CHOOSE i \in idx : \A j \in idx : j <= i]

PagesSoFar == Cardinality({i \in 1..Len(requests) : requests[i].op = "result3"})

\* a post-processing that builds an entry for every record, keyed or not
EntriesUnfiltered(records, obj_class) ==
  [i \in 1..Len(records) |->
     [class |-> obj_class, dn |-> records[i].key,
      properties |-> Override(Override([p \in MANDATORY_PROPS_DEFAULT |-> <<Str("")>>],
                                       records[i].attrs),
                              [p \in {"distinguishedName"} |-> <<records[i].key>>])]]

\* Domain.Search, lines 295-306: the entries built from the accumulated records
Entries(records, obj_class) ==
  LET keyed == SelectSeq(records, LAMBDA r : r.key # 0)
  IN [i \in 1..Len(keyed) |->
        [class |-> obj_class, dn |-> keyed[i].key,
         properties |-> Override(Override([p \in MANDATORY_PROPS_DEFAULT |-> <<Str("")>>],
                                          keyed[i].attrs),
                                 [p \in {"distinguishedName"} |-> <<keyed[i].key>>])]]

\* ------------------------------------------------------------------ ADObject
\* ADObject.distinguished_name
distinguished_name(props) == props["distinguishedName"][1]

\* a SetProperties that puts every key of the snapshot into the changeset
ChangedAll(props, snap) == DOMAIN snap

\* SetProperties, lines 719-722: the keys of the snapshot whose value differs
Changed(props, snap) == {p \in DOMAIN snap : snap[p] # props[p]}

\* SetProperties, lines 724-726: every property the snapshot lacks gets [None]
Placeholders(props, snap) ==
  Override(snap, [p \in DOMAIN props \ DOMAIN snap |-> <<NoneElt>>])

\* what an operation leaves behind: the entry, the server, the value returned
\* ("" when it raised), the exception raised ("" when none), the calls of
\* Domain.UpdateObject it made and the requests it sent to the store client
Outcome(props, snap, al, srv, ret, exc, calls, sent) ==
  [properties |-> props, snapshot |-> snap, aliased |-> al, server |-> srv,
   ret |-> ret, exc |-> exc, calls |-> calls, sent |-> sent]

\* a SetProperties that never renews the snapshot
SnapshotKept(props, snap1, ok) == snap1

\* SetProperties, lines 730-734: the snapshot becomes a deep copy of the
\* properties when UpdateObject returned a true value, and stays otherwise
SnapshotAfter(props, snap1, ok) == IF ok THEN props ELSE snap1

\* ADObject.SetProperties on an entry holding props / snap, the store answering
\* outcome
SetProperties(props, snap, al, srv, conn, outcome) ==
  IF "distinguishedName" \notin DOMAIN props
  THEN Outcome(props, Placeholders(props, snap), al, srv, "", "KeyError", <<>>, <<>>)
  ELSE
  LET keys == Changed(props, snap)
      new == Restrict(props, keys)
      old == Restrict(snap, keys)
      snap1 == Placeholders(props, snap)
      dn == distinguished_name(props)
      upd == UpdateObject(conn, srv, dn[2], old, new, outcome)
      ok == upd.exc = "" /\ upd.ret = "True"
  IN Outcome(props,
             SnapshotAfter(props, snap1, ok),
             IF ok THEN {} ELSE al,
             upd.server,
             IF upd.exc # "" THEN "" ELSE IF ok THEN "True" ELSE "False",
             upd.exc,
             << [dn |-> dn, old |-> old, new |-> new] >>,
             upd.sent)

\* ADObject.GetProperties(req): every property of the entry the search returns
\* is stored, as one list object, in properties and in the snapshot
GetProperties(props, snap, al, srv, conn, req) ==
  IF "distinguishedName" \notin DOMAIN props
  THEN Outcome(props, snap, al, srv, "", "KeyError", <<>>, <<>>)
  ELSE IF ~conn
  THEN Outcome(props, snap, al, srv, "", "ADDomainNotConnectedError", <<>>, <<>>)
  ELSE IF DOMAIN srv = {} \/ distinguished_name(props)[2] # GroupDN
  THEN Outcome(props, snap, al, srv, "None", "", <<>>, <<"search_ext">>)
  ELSE LET got == PostProcess(GroupDN, ServerRecord(srv, req))
       IN Outcome(Override(props, got), Override(snap, got), al \cup DOMAIN got,
                  srv, "None", "", <<>>, <<"search_ext">>)

\* ---- ADObject.__init__ and the __init__ of its subclasses
\* the classes with an __init__ of their own
Classes == {"ADObject", "User", "Computer", "Group"}
MANDATORY_PROPS_USER == MANDATORY_PROPS_DEFAULT \cup {"sAMAccountName"}
MANDATORY_PROPS_COMPUTER == MANDATORY_PROPS_USER
MANDATORY_PROPS_GROUP == MANDATORY_PROPS_DEFAULT

\* the mandatory properties of the __init__ bodies a class runs, base class
\* first; Container has no __init__ of its own
InitChain(cls) ==
  CASE cls = "User" -> <<MANDATORY_PROPS_DEFAULT, MANDATORY_PROPS_USER>>
    [] cls = "Computer" -> <<MANDATORY_PROPS_DEFAULT, MANDATORY_PROPS_USER,
                             MANDATORY_PROPS_COMPUTER>>
    [] cls = "Group" -> <<MANDATORY_PROPS_DEFAULT, MANDATORY_PROPS_GROUP>>
    [] OTHER -> <<MANDATORY_PROPS_DEFAULT>>

\* the properties argument of a constructor: a dict or a list of names
DictArg(d) == [kind |-> "dict", dict |-> d, list |-> {}]
ListArg(l) == [kind |-> "list", dict |-> EmptyMap, list |-> l]

\* lines 593-598: properties starts as {'distinguishedName': [dn]} and is
\* replaced by the caller's dict, the very object, when a dict is given
InitProperties(dn, a) ==
  IF a.kind = "dict" THEN a.dict ELSE [p \in {"distinguishedName"} |-> <<Str(dn)>>]

\* a constructor that leaves the snapshot as GetProperties left it
InitSnapshotStale(props, snap) == snap

\* the last line of every __init__: the snapshot is a deep copy of properties
InitSnapshot(props, snap) == props

\* one __init__ body (lines 597-614, 748-764, 885-902, 973-989) run on the
\* entry e with the mandatory properties of its class
InitBody(mandatory, e, a, srv, conn) ==
  IF e.exc # "" THEN e
  ELSE LET list == IF a.kind = "list" THEN e.list \cup mandatory ELSE e.list
           get_props == IF a.kind = "dict" THEN mandatory \ DOMAIN e.properties ELSE list
           g == IF get_props = {}
                THEN Outcome(e.properties, e.snapshot, e.aliased, srv, "None", "", <<>>, <<>>)
                ELSE GetProperties(e.properties, e.snapshot, e.aliased, srv, conn, get_props)
       IN IF g.exc # ""
          THEN [e EXCEPT !.exc = g.exc, !.sent = @ \o g.sent, !.list = list]
          ELSE [properties |-> g.properties,
                snapshot |-> InitSnapshot(g.properties, g.snapshot),
                aliased |-> {},
                exc |-> "",
                sent |-> e.sent \o g.sent,
                list |-> list]

RECURSIVE InitBodies(_, _, _, _, _)
InitBodies(chain, e, a, srv, conn) ==
  IF chain = <<>> THEN e
  ELSE InitBodies(Tail(chain), InitBody(Head(chain), e, a, srv, conn), a, srv, conn)

\* cls(dn, a, domain): the entry constructed, or the exception raised
Construct(cls, dn, a, srv, conn) ==
  InitBodies(InitChain(cls),
             [properties |-> InitProperties(dn, a), snapshot |-> EmptyMap, aliased |-> {},
              exc |-> "", sent |-> <<>>, list |-> a.list],
             a, srv, conn)

\* an ADObject.Delete that empties the entry before asking the store
Delete_ClearFirst(props, snap, al, srv, conn, outcome) ==
  IF "distinguishedName" \notin DOMAIN props
  THEN Outcome(props, snap, al, srv, "", "KeyError", <<>>, <<>>)
  ELSE LET d == DeleteObject(conn, srv, distinguished_name(props)[2], outcome)
       IN Outcome(EmptyMap, EmptyMap, {}, d.server, IF d.exc = "" THEN "None" ELSE "",
                  d.exc, <<>>, d.sent)

\* ADObject.Delete
Delete(props, snap, al, srv, conn, outcome) ==
  IF "distinguishedName" \notin DOMAIN props
  THEN Outcome(props, snap, al, srv, "", "KeyError", <<>>, <<>>)
  ELSE LET d == DeleteObject(conn, srv, distinguished_name(props)[2], outcome)
       IN IF d.exc # ""
          THEN Outcome(props, snap, al, srv, "", d.exc, <<>>, d.sent)
          ELSE Outcome(EmptyMap, EmptyMap, {}, d.server, "None", "", <<>>, d.sent)

\* ---- ADObject.Move
\* the first relative DN of the entry's DN, found by RE_CN, and the
\* destinations of a move: each as text and as the characters of the text
FirstRDN == [text |-> "CN=g", chars |-> <<"C", "N", "=", "g">>]
Destinations ==
  {[text |-> "OU=n", chars |-> <<"O", "U", "=", "n">>],
   [text |-> "DC=x", chars |-> <<"D", "C", "=", "x">>]}

\* ADObject.Move: line 698 stores the str '%s,%s' % (prefix, destination)
\* itself, a sequence of its characters, as the value of distinguishedName;
\* a DN in which neither RE_CN nor RE_OU finds anything raises IndexError
Move(props, snap, al, srv, conn, dest, outcome) ==
  IF "distinguishedName" \notin DOMAIN props
  THEN Outcome(props, snap, al, srv, "", "KeyError", <<>>, <<>>)
  ELSE IF distinguished_name(props)[2] # GroupDN
  THEN Outcome(props, snap, al, srv, "", "IndexError", <<>>, <<>>)
  ELSE LET value == SeqMap(Str, FirstRDN.chars \o <<",">> \o dest.chars)
           props1 == Override(props, [p \in {"distinguishedName"} |-> value])
           r == SetProperties(props1, snap, al \ {"distinguishedName"}, srv, conn, outcome)
       IN [r EXCEPT !.ret = IF r.exc = "" THEN "None" ELSE ""]

\* ---- Domain.Get*ByDN and Domain.GuessObjectType
\* ADObject.object_category
object_category(props) == props["objectCategory"][1]

\* the first component of the objectCategory values GuessObjectType looks for
Markers == {"CN=Computer", "CN=Person", "CN=Group", "CN=Container",
            "CN=Organizational-Unit"}

\* the categories the filter of each Get*ByDN admits
CategoriesOf(cls) ==
  CASE cls = "Computer" -> {"CN=Computer"}
    [] cls = "User" -> {"CN=Person"}
    [] cls = "Group" -> {"CN=Group"}
    [] OTHER -> {"CN=Container", "CN=Domain-DNS", "CN=Organizational-Unit"}

\* Domain.GetUserByDN, GetComputerByDN, GetGroupByDN and GetContainerByDN:
\* the first entry of a search by DN and category, built as cls, or None
GetByDN(cls, dn, srv, conn) ==
  LET text == ToStr(dn)
  IN IF Raises(text)
     THEN [ret |-> "", exc |-> text[2], sent |-> <<>>]
     ELSE IF ~conn
     THEN [ret |-> "", exc |-> "ADDomainNotConnectedError", sent |-> <<>>]
     ELSE IF /\ text[2] = GroupDN
             /\ "objectCategory" \in DOMAIN srv
             /\ srv["objectCategory"][1][2] \in CategoriesOf(cls)
     THEN LET rec == PostProcess(GroupDN, ServerRecord(srv, DOMAIN srv))
              c == Construct(cls, GroupDN, DictArg(rec), srv, conn)
          IN [ret |-> IF c.exc = "" THEN cls ELSE "", exc |-> c.exc,
              sent |-> <<"search_ext">> \o c.sent]
     ELSE [ret |-> "None", exc |-> "", sent |-> <<"search_ext">>]

\* 'CN=...' in obj.object_category: a substring test on a str
Carries(marker, cat) == cat[2] = marker

\* Domain.GuessObjectType(obj): obj is an ADObject holding props, or is not
\* an ADObject at all
GuessObjectType(is_adobject, props, srv, conn) ==
  IF ~is_adobject
  THEN [ret |-> "", exc |-> "ADObjectClassOnlyError", sent |-> <<>>]
  ELSE IF "objectCategory" \notin DOMAIN props
  THEN [ret |-> "", exc |-> "KeyError", sent |-> <<>>]
  ELSE LET cat == object_category(props)
           dn == distinguished_name(props)
       IN IF cat[1] # "str"
          THEN [ret |-> "", exc |-> "TypeError", sent |-> <<>>]
          ELSE IF Carries("CN=Computer", cat) THEN GetByDN("Computer", dn, srv, conn)
          ELSE IF Carries("CN=Person", cat) THEN GetByDN("User", dn, srv, conn)
          ELSE IF Carries("CN=Group", cat) THEN GetByDN("Group", dn, srv, conn)
          ELSE IF Carries("CN=Container", cat) \/ Carries("CN=Organizational-Unit", cat)
          THEN [ret |-> "", exc |-> "AttributeError", sent |-> <<>>]
          ELSE [ret |-> "obj", exc |-> "", sent |-> <<>>]

\* ------------------------------------------------------------------ Group
\* the names of the list that resolve to an entry, in the order given
Resolvable(list) == SelectSeq(list, LAMBDA n : GetObjectByName(n) # "")
\* result.distinguished_name for each of them: a str
ResolvedDNs(list) == [i \in 1..Len(Resolvable(list)) |-> Str(GetObjectByName(Resolvable(list)[i]))]
\* one search per name looked up
Lookups(n) == [i \in 1..n |-> "search_ext"]

\* a Group.AddMembers that refuses a name it cannot resolve
AddMembers_Strict(props, snap, al, srv, conn, list, outcome) ==
  LET members_to_add == SeqMap(ToBytes, ResolvedDNs(list))
  IN IF list # <<>> /\ ~conn
     THEN Outcome(props, snap, al, srv, "", "ADDomainNotConnectedError", <<>>, <<>>)
     ELSE IF Len(members_to_add) # Len(list)
     THEN Outcome(props, snap, al, srv, "", "ADObjectNotFoundError", <<>>,
                  Lookups(Len(list)))
     ELSE IF \E m \in Range(members_to_add) : m \in Range(props["member"])
     THEN Outcome(props, snap, al, srv, "", "ADGroupMemberExistsError", <<>>,
                  Lookups(Len(list)))
     ELSE LET props1 == [props EXCEPT !["member"] = @ \o members_to_add]
              snap0 == IF "member" \in al
                       THEN [snap EXCEPT !["member"] = props1["member"]] ELSE snap
              r == SetProperties(props1, snap0, al, srv, conn, outcome)
          IN [r EXCEPT !.sent = Lookups(Len(list)) \o @]

\* Group.AddMembers
AddMembers(props, snap, al, srv, conn, list, outcome) ==
  LET members_to_add == SeqMap(ToBytes, ResolvedDNs(list))
  IN IF list # <<>> /\ ~conn
     THEN Outcome(props, snap, al, srv, "", "ADDomainNotConnectedError", <<>>, <<>>)
     ELSE IF \E m \in Range(members_to_add) : m \in Range(props["member"])
     THEN Outcome(props, snap, al, srv, "", "ADGroupMemberExistsError", <<>>,
                  Lookups(Len(list)))
     ELSE LET props1 == [props EXCEPT !["member"] = @ \o members_to_add]
              \* += changes the list object in place: a snapshot slot holding
              \* the same object changes with it
              snap0 == IF "member" \in al
                       THEN [snap EXCEPT !["member"] = props1["member"]] ELSE snap
              r == SetProperties(props1, snap0, al, srv, conn, outcome)
          IN [r EXCEPT !.sent = Lookups(Len(list)) \o @]

\* the names whose entry DeleteMembers does not find in the member list: the
\* str distinguished_name is looked up among the list's elements
NotMembers(props, list) ==
  {i \in 1..Len(list) : /\ GetObjectByName(list[i]) # ""
                        /\ Str(GetObjectByName(list[i])) \notin Range(props["member"])}
First(S) == CHOOSE i \in S : \A j \in S : i <= j

\* a Group.DeleteMembers that raises without fetching the member list again
DeleteMembers_NoRefresh(props, snap, al, srv, conn, list, new_list, outcome) ==
  LET missing == NotMembers(props, list)
  IN IF list # <<>> /\ ~conn
     THEN Outcome(props, snap, al, srv, "", "ADDomainNotConnectedError", <<>>, <<>>)
     ELSE IF missing # {}
     THEN Outcome(props, snap, al, srv, "", "ADGroupMemberDoesNotExistError", <<>>,
                  Lookups(First(missing)))
     ELSE LET props1 == [props EXCEPT !["member"] = new_list]
              r == SetProperties(props1, snap, al \ {"member"}, srv, conn, outcome)
          IN [r EXCEPT !.sent = Lookups(Len(list)) \o @]

\* Group.DeleteMembers; new_list is the order list(current - members_to_remove)
\* happens to produce
DeleteMembers(props, snap, al, srv, conn, list, new_list, outcome) ==
  LET missing == NotMembers(props, list)
  IN IF list # <<>> /\ ~conn
     THEN Outcome(props, snap, al, srv, "", "ADDomainNotConnectedError", <<>>, <<>>)
     ELSE IF missing # {}
     THEN LET g == GetProperties(props, snap, al, srv, conn, {"member"})
          IN [g EXCEPT !.ret = "", !.exc = "ADGroupMemberDoesNotExistError",
                       !.sent = Lookups(First(missing)) \o @]
     ELSE LET props1 == [props EXCEPT !["member"] = new_list]
              r == SetProperties(props1, snap, al \ {"member"}, srv, conn, outcome)
          IN [r EXCEPT !.sent = Lookups(Len(list)) \o @]

\* the lists list(current - members_to_remove) can be
RemainingLists(props, list) == ListsOf(Range(props["member"]) \ Range(ResolvedDNs(list)))

\* a Group.OverwriteMembers that leaves out the names it cannot resolve
OverwriteMembers_Skip(props, snap, al, srv, conn, list, outcome) ==
  LET members == ResolvedDNs(list)
  IN IF list # <<>> /\ ~conn
     THEN Outcome(props, snap, al, srv, "", "ADDomainNotConnectedError", <<>>, <<>>)
     ELSE IF Range(props["member"]) = Range(members)
     THEN Outcome(props, snap, al, srv, "True", "", <<>>, Lookups(Len(list)))
     ELSE LET props1 == [props EXCEPT !["member"] = members]
              r == SetProperties(props1, snap, al \ {"member"}, srv, conn, outcome)
          IN [r EXCEPT !.sent = Lookups(Len(list)) \o @]

\* Group.OverwriteMembers
OverwriteMembers(props, snap, al, srv, conn, list, outcome) ==
  LET members == ResolvedDNs(list)
  IN IF list # <<>> /\ ~conn
     THEN Outcome(props, snap, al, srv, "", "ADDomainNotConnectedError", <<>>, <<>>)
     ELSE IF Len(members) # Len(list)
     THEN Outcome(props, snap, al, srv, "", "ADObjectNotFoundError", <<>>,
                  Lookups(First({i \in 1..Len(list) : GetObjectByName(list[i]) = ""})))
     ELSE IF Range(props["member"]) = Range(members)
     THEN Outcome(props, snap, al, srv, "True", "", <<>>, Lookups(Len(list)))
     ELSE LET props1 == [props EXCEPT !["member"] = members]
              r == SetProperties(props1, snap, al \ {"member"}, srv, conn, outcome)
          IN [r EXCEPT !.sent = Lookups(Len(list)) \o @]

\* ------------------------------------------------------------------ User
\* User.user_account_control
user_account_control(props) == props["userAccountControl"][1][2]
\* User.msds_ua_control_computed
msds_ua_control_computed(props) == props["msDS-User-Account-Control-Computed"][1][2]
\* User.disabled
disabled(props) == BitmaskBool(user_account_control(props), ADS_UF_ACCOUNTDISABLE)
\* User.locked_out
locked_out(props) == BitmaskBool(msds_ua_control_computed(props), ADS_UF_LOCKOUT)
\* User.pwd_expired
pwd_expired(props) == BitmaskBool(msds_ua_control_computed(props), ADS_UF_PASSWORD_EXPIRED)
\* User.pwd_never_expires
pwd_never_expires(props) ==
  BitmaskBool(user_account_control(props), ADS_UF_DONT_EXPIRE_PASSWD)

\* a User.Disable without the test of the disabled flag
Disable_Unguarded(props, snap, al, srv, conn, outcome) ==
  LET uac == props["userAccountControl"][1][2]
      value == BitOr(uac, ADS_UF_ACCOUNTDISABLE)
      props1 == [props EXCEPT !["userAccountControl"] = <<Str(value)>>]
      r == SetProperties(props1, snap, al \ {"userAccountControl"}, srv, conn, outcome)
  IN IF r.exc # "" THEN r
     ELSE [r EXCEPT !.ret = IF disabled(r.properties) THEN "True" ELSE "False"]

\* User.Disable
Disable(props, snap, al, srv, conn, outcome) ==
  IF disabled(props)
  THEN Outcome(props, snap, al, srv, "", "UserNotEnabledError", <<>>, <<>>)
  ELSE LET uac == props["userAccountControl"][1][2]
           value == BitOr(uac, ADS_UF_ACCOUNTDISABLE)
           props1 == [props EXCEPT !["userAccountControl"] = <<Str(value)>>]
           r == SetProperties(props1, snap, al \ {"userAccountControl"}, srv, conn, outcome)
       IN IF r.exc # "" THEN r
          ELSE [r EXCEPT !.ret = IF disabled(r.properties) THEN "True" ELSE "False"]

\* User.Enable
Enable(props, snap, al, srv, conn, outcome) ==
  IF ~disabled(props)
  THEN Outcome(props, snap, al, srv, "", "UserNotDisabledError", <<>>, <<>>)
  ELSE LET uac == props["userAccountControl"][1][2]
           value == BitXor(uac, ADS_UF_ACCOUNTDISABLE)
           text == ToStr(IntElt(value))
       IN IF Raises(text)
          THEN Outcome(props, snap, al, srv, "", text[2], <<>>, <<>>)
          ELSE LET props1 == [props EXCEPT !["userAccountControl"] = <<text>>]
                   r == SetProperties(props1, snap, al \ {"userAccountControl"}, srv, conn,
                                      outcome)
               IN IF r.exc # "" THEN r
                  ELSE [r EXCEPT !.ret = IF ~disabled(r.properties) THEN "True" ELSE "False"]

\* a User.Unlock that answers from the entry, without asking the store again
Unlock_NoRefetch(props, snap, al, srv, conn, outcome) ==
  IF ~locked_out(props)
  THEN Outcome(props, snap, al, srv, "", "UserNotLockedOutError", <<>>, <<>>)
  ELSE LET props1 == Override(props, [p \in {"lockoutTime"} |-> <<Str(0)>>])
           r == SetProperties(props1, snap, al \ {"lockoutTime"}, srv, conn, outcome)
       IN IF r.exc # "" THEN r
          ELSE [r EXCEPT !.ret = IF ~locked_out(r.properties) THEN "True" ELSE "False"]

\* User.Unlock
Unlock(props, snap, al, srv, conn, outcome) ==
  IF ~locked_out(props)
  THEN Outcome(props, snap, al, srv, "", "UserNotLockedOutError", <<>>, <<>>)
  ELSE LET props1 == Override(props, [p \in {"lockoutTime"} |-> <<Str(0)>>])
           r == SetProperties(props1, snap, al \ {"lockoutTime"}, srv, conn, outcome)
       IN IF r.exc # "" THEN r
          ELSE LET g == GetProperties(r.properties, r.snapshot, r.aliased, r.server, conn,
                                      {"msDS-User-Account-Control-Computed"})
               IN [g EXCEPT !.ret = IF ~locked_out(g.properties) THEN "True" ELSE "False",
                            !.calls = r.calls,
                            !.sent = r.sent \o @]

\* ------------------------------------------------------------------ time
\* the position of the highest bit of a positive integer, 0 for 0
RECURSIVE Exponent(_)
Exponent(k) == IF k <= 1 THEN 0 ELSE 1 + Exponent(k \div 2)

RECURSIVE Pow2(_)
Pow2(n) == IF n = 0 THEN 1 ELSE 2 * Pow2(n - 1)

\* (ad_time - EPOCH_AS_FILETIME) / 10000000, the difference being
\* seconds * 10000000 + ticks with 0 <= ticks < 10000000: Python divides two
\* ints into the float nearest to the quotient. The floats around a value of
\* exponent e lie 2^(e - 52) apart, so the nearest float is seconds + 1 when
\* the quotient is within 2^(e - 53) of it, that is when
\* (10000000 - ticks) * 2^(53 - e) <= 10000000; 2^24 exceeds 10000000
TrueDivisionRoundsUp(seconds, ticks) ==
  LET e == Exponent(seconds)
  IN /\ Mantissa - e <= 23
     /\ TicksPerSecond - ticks <= TicksPerSecond \div Pow2(Mantissa - e)

\* ADFileTimeToUnix(EPOCH_AS_FILETIME + seconds * 10000000 + ticks): int()
\* of the float drops its fraction
ADFileTimeToUnix(seconds, ticks) ==
  IF TrueDivisionRoundsUp(seconds, ticks) THEN seconds + 1 ELSE seconds

\* ------------------------------------------------------------------ search filters
\* the characters of a caller's text: a plain one and the five that
\* ldap.filter.escape_filter_chars replaces
Specials == {"*", "(", ")", "\\", "NUL"}
Alphabet == {"a"} \cup Specials

\* the two hexadecimal digits that stand for a special character
HexOf(c) ==
  CASE c = "*" -> <<"2", "a">>
    [] c = "(" -> <<"2", "8">>
    [] c = ")" -> <<"2", "9">>
    [] c = "\\" -> <<"5", "c">>
    [] OTHER -> <<"0", "0">>

\* an escape that lets every character through
EscapeNothing(chars) == chars

\* ldap.filter.escape_filter_chars: a backslash and two digits for each special
RECURSIVE EscapeChars(_)
EscapeChars(chars) ==
  IF chars = <<>> THEN <<>>
  ELSE (IF Head(chars) \in Specials THEN <<"\\">> \o HexOf(Head(chars)) ELSE <<Head(chars)>>)
         \o EscapeChars(Tail(chars))

\* Escape(text)
Escape(text) ==
  LET t == ToStr(text)
  IN IF Raises(t) THEN t ELSE Str(EscapeChars(t[2]))

\* the lookups that build a filter from a caller's text
ByName == {"GetObjectByName", "GetUserByName", "GetComputerByName", "GetGroupByName"}
ByDN == {"GetObjectByDN", "GetUserByDN", "GetComputerByDN", "GetGroupByDN",
         "GetContainerByDN"}
OfEntry == {"GetProperties", "GetMembers"}
FilterLookups == ByName \cup ByDN \cup OfEntry

\* the text of the filter before the interpolated value
FilterHead(lookup) ==
  CASE lookup \in ByName -> <<"sAMAccountName=">>
    [] lookup \in OfEntry -> <<"distinguishedName=">>
    [] lookup = "GetObjectByDN" -> <<"(", "distinguishedName=">>
    [] OTHER -> <<"(", "&", "(", "distinguishedName=">>

\* one (objectCategory=...) term
CategoryTerm(cat) == <<"(", "objectCategory=", cat, "dn_configuration", ")">>

\* the text of the filter after the interpolated value
FilterTail(lookup) ==
  CASE lookup \in ByName \cup OfEntry -> <<>>
    [] lookup = "GetObjectByDN" -> <<")">>
    [] lookup = "GetUserByDN" -> <<")">> \o CategoryTerm("CAT_USER") \o <<")">>
    [] lookup = "GetComputerByDN" -> <<")">> \o CategoryTerm("CAT_COMPUTER") \o <<")">>
    [] lookup = "GetGroupByDN" -> <<")">> \o CategoryTerm("CAT_GROUP") \o <<")">>
    [] OTHER -> <<")", "(", "|">> \o CategoryTerm("CAT_CN") \o CategoryTerm("CAT_DOMAIN")
                  \o CategoryTerm("CAT_OU") \o <<")", ")">>

\* GetComputerByName, lines 431-434: the part of the name RE_HOSTNAME matches,
\* its first n characters (n = -1: no match), with a '$' at its end
Account(text, n) ==
  IF text[1] # "str" THEN Raise("TypeError")
  ELSE IF n < 0 THEN Raise("AttributeError")
  ELSE IF n = 0 THEN Raise("IndexError")
  ELSE Str(SubSeq(text[2], 1, n) \o <<"$">>)

\* the text a lookup interpolates
Interpolated(lookup, text, n) ==
  IF lookup = "GetComputerByName" THEN Account(text, n) ELSE text

\* the ldap_filter a lookup passes to Domain.Search
Filter(lookup, text, n) ==
  LET t == Interpolated(lookup, text, n)
      e == IF Raises(t) THEN t ELSE Escape(t)
  IN IF Raises(e) THEN e
     ELSE Str(FilterHead(lookup) \o e[2] \o FilterTail(lookup))

\* ------------------------------------------------------------------ operations
\* the record of an operation: which it was, what it returned or raised, how
\* many calls of Domain.UpdateObject it made and the names in the changeset
Changeset(calls) == IF calls = <<>> THEN {} ELSE DOMAIN calls[1].new
Done(op, r) ==
  [op |-> op, ret |-> r.ret, exc |-> r.exc, ncalls |-> Len(r.calls),
   keys |-> Changeset(r.calls), skipped |-> 0]
Plain(op, ret, exc) ==
  [op |-> op, ret |-> ret, exc |-> exc, ncalls |-> 0, keys |-> {}, skipped |-> 0]
NoOp == Plain("", "", "")
NoParams == [base_dn |-> "", scope |-> "", properties |-> "", obj_class |-> ""]

\* the effect of an operation given a list of names, n of which did not resolve
ApplyNames(op, r, n) ==
  /\ properties' = r.properties
  /\ snapshot' = r.snapshot
  /\ aliased' = r.aliased
  /\ server' = r.server
  /\ last' = [Done(op, r) EXCEPT !.skipped = n]
  /\ UNCHANGED <<connected, ldap_obj, searchVars, peerVars>>

Apply(op, r) == ApplyNames(op, r, 0)

\* the names of the list that do not resolve
Unresolvable(list) == Len(list) - Len(Resolvable(list))

\* values a caller assigns
AssignValues == {<<Bytes("d1")>>, <<Bytes("d2")>>}
AssignProps == {"description", "mail"}

\* properties[p] = v: the slot gets a new list object
Assign(p, v) ==
  /\ properties' = Override(properties, [q \in {p} |-> v])
  /\ aliased' = aliased \ {p}
  /\ local_only' = IF p \in DOMAIN properties THEN local_only ELSE local_only \cup {p}
  /\ last' = Plain("Assign", "None", "")
  /\ UNCHANGED <<connected, ldap_obj, snapshot, server, searchVars, peerVars>>

CallSetProperties(outcome) ==
  LET r == SetProperties(properties, snapshot, aliased, server, connected, outcome)
  IN /\ Apply("SetProperties", r)
     /\ local_only' = IF r.ret = "True" THEN {} ELSE local_only

FetchLists == {{"member"}, {"description"}, {"mail"}}

CallGetProperties(req) ==
  LET r == GetProperties(properties, snapshot, aliased, server, connected, req)
  IN /\ Apply("GetProperties", r)
     /\ local_only' = local_only \ (r.aliased \ aliased)

CallAddMembers(list, outcome) ==
  LET r == AddMembers(properties, snapshot, aliased, server, connected, list, outcome)
  IN /\ Len(properties["member"]) + Len(Resolvable(list)) <= MaxMembers
     /\ ApplyNames("AddMembers", r, Unresolvable(list))
     /\ UNCHANGED local_only

CallDeleteMembers(list, outcome) ==
  \E new_list \in RemainingLists(properties, list) :
    /\ ApplyNames("DeleteMembers",
                  DeleteMembers(properties, snapshot, aliased, server, connected, list,
                                new_list, outcome),
                  Unresolvable(list))
    /\ UNCHANGED local_only

CallOverwriteMembers(list, outcome) ==
  /\ ApplyNames("OverwriteMembers",
                OverwriteMembers(properties, snapshot, aliased, server, connected, list,
                                 outcome),
                Unresolvable(list))
  /\ UNCHANGED local_only

\* how Domain.Connect can end: the bind succeeds and the root DSE is read; the
\* server is down; the credentials are refused; the bind succeeds and reading
\* the root DSE fails
ConnectResults == {"ok", "SERVER_DOWN", "INVALID_CREDENTIALS", "ROOTDSE_FAILED"}

\* Domain.Connect
Connect(result) ==
  /\ pc = "idle"
  /\ ldap_obj' = "open"
  /\ connected' = IF result \in {"ok", "ROOTDSE_FAILED"} THEN TRUE ELSE connected
  /\ last' = Plain("Connect", IF result = "ok" THEN "None" ELSE "",
                   CASE result = "ok" -> ""
                     [] result = "SERVER_DOWN" -> "LDAPConnectionFailedError"
                     [] result = "INVALID_CREDENTIALS" -> "InvalidCredentialsError"
                     [] OTHER -> "IndexError")
  /\ requests' = IF result \in {"ok", "ROOTDSE_FAILED"}
                 THEN Calls(<<"simple_bind_s", "search_ext">>)
                 ELSE Calls(<<"simple_bind_s">>)
  /\ UNCHANGED <<entryVars, pc, params, lc_cookie, raw, served, results, peerVars>>

\* Domain.Disconnect
Disconnect ==
  /\ pc = "idle"
  /\ IF ldap_obj = "None"
     THEN /\ last' = Plain("Disconnect", "", "AttributeError")
          /\ requests' = <<>>
          /\ UNCHANGED <<ldap_obj, connected>>
     ELSE /\ ldap_obj' = "closed"
          /\ connected' = FALSE
          /\ last' = Plain("Disconnect", "None", "")
          /\ requests' = Calls(<<"unbind_s">>)
  /\ UNCHANGED <<entryVars, pc, params, lc_cookie, raw, served, results, peerVars>>

\* another session changes the group's members at the server
ServerMemberLists == {<<>>, <<Bytes("A"), Bytes("B")>>}
ServerChange(m) ==
  /\ server["member"] # m
  /\ server' = [server EXCEPT !["member"] = m]
  /\ UNCHANGED <<connected, ldap_obj, properties, snapshot, aliased, local_only, last,
                 searchVars, peerVars>>

\* ---- a User's operations
CallDisable(outcome) ==
  /\ Apply("Disable", Disable(properties, snapshot, aliased, server, connected, outcome))
  /\ UNCHANGED local_only

CallEnable(outcome) ==
  /\ Apply("Enable", Enable(properties, snapshot, aliased, server, connected, outcome))
  /\ UNCHANGED local_only

CallUnlock(outcome) ==
  /\ Apply("Unlock", Unlock(properties, snapshot, aliased, server, connected, outcome))
  /\ UNCHANGED local_only

\* the userAccountControl values of the accounts: a normal account, with and
\* without DONT_EXPIRE_PASSWD, enabled and disabled
UACValues == {512, 514, 66048, 66050}
\* the computed control values: not locked out, locked out
ComputedValues == {0, 16}

\* the account is changed in the directory by somebody else
ServerUserChange(u, c) ==
  /\ server["userAccountControl"] # <<Bytes(u)>>
       \/ server["msDS-User-Account-Control-Computed"] # <<Bytes(c)>>
  /\ server' = [server EXCEPT !["userAccountControl"] = <<Bytes(u)>>,
                              !["msDS-User-Account-Control-Computed"] = <<Bytes(c)>>]
  /\ UNCHANGED <<connected, ldap_obj, properties, snapshot, aliased, local_only, last,
                 searchVars, peerVars>>

UserFetchLists == {{"userAccountControl"}, {"msDS-User-Account-Control-Computed"}}

\* ---- the Domain's own operations
SearchArgs ==
  [base_dn : {"", "ou"}, scope : {"BASE", "SUBTREE"}, properties : {"None", "list"},
   obj_class : {"ADObject"}]

\* Domain.Search, lines 247-269: the call up to the first request
SearchCall(args, reply) ==
  /\ pc = "idle"
  /\ IF ~connected
     THEN /\ last' = Plain("Search", "", "ADDomainNotConnectedError")
          /\ requests' = <<>>
          /\ UNCHANGED <<pc, params, lc_cookie>>
     ELSE LET base == IF args.base_dn = "" THEN "dn_root" ELSE args.base_dn
              req == Req("search_ext", base, args.scope, args.properties, 0, reply)
          IN /\ requests' = <<req>>
             /\ IF reply = "TIMELIMIT_EXCEEDED"
                THEN /\ last' = Plain("Search", "", "QueryTimeoutError")
                     /\ UNCHANGED <<pc, params, lc_cookie>>
                ELSE /\ last' = Plain("Search", "", "")
                     /\ pc' = "result3"
                     /\ params' = args
                     /\ lc_cookie' = 0
  /\ raw' = <<>>
  /\ served' = <<>>
  /\ results' = <<>>
  /\ UNCHANGED <<connected, ldap_obj, entryVars, peerVars>>

\* what the server puts into the paging control of a response
Controls == {"none", "empty", "cookie"}

\* a paging loop that asks for another page whenever the response carries a
\* paging control, whatever its cookie
SearchResult3_AnyControl(n, control) ==
  /\ pc = "result3"
  /\ control # "none" => PagesSoFar + 1 < MaxPages
  /\ LET pos == Position(LastSearchExt.cookie)
         rdata == [i \in 1..n |-> Record(pos + i)]
         raw1 == raw \o rdata
     IN /\ served' = served \o rdata
        /\ requests' = Append(requests, Call("result3"))
        /\ IF control # "none"
           THEN /\ lc_cookie' = CookieAt(pos + n)
                /\ raw' = raw1
                /\ pc' = "search_ext"
                /\ UNCHANGED <<results, last, params>>
           ELSE /\ results' = Entries(raw1, params.obj_class)
                /\ raw' = <<>>
                /\ pc' = "idle"
                /\ params' = NoParams
                /\ lc_cookie' = 0
                /\ last' = Plain("Search", "list", "")
  /\ UNCHANGED <<connected, ldap_obj, entryVars, peerVars>>

\* Domain.Search, lines 272-293 and 295-306: one result3 with what follows it,
\* up to the next request or to the return
SearchResult3(n, control) ==
  /\ pc = "result3"
  /\ control = "cookie" => PagesSoFar + 1 < MaxPages
  /\ LET pos == Position(LastSearchExt.cookie)
         rdata == [i \in 1..n |-> Record(pos + i)]
         raw1 == raw \o rdata
     IN /\ served' = served \o rdata
        /\ requests' = Append(requests, Call("result3"))
        /\ IF control = "cookie"
           THEN /\ lc_cookie' = CookieAt(pos + n)
                /\ raw' = raw1
                /\ pc' = "search_ext"
                /\ UNCHANGED <<results, last, params>>
           ELSE /\ results' = Entries(raw1, params.obj_class)
                /\ raw' = <<>>
                /\ pc' = "idle"
                /\ params' = NoParams
                /\ lc_cookie' = 0
                /\ last' = Plain("Search", "list", "")
  /\ UNCHANGED <<connected, ldap_obj, entryVars, peerVars>>

\* Domain.Search, line 272: result3 raises
SearchResult3Timeout ==
  /\ pc = "result3"
  /\ requests' = Append(requests, Req("result3", "", "", "", 0, "TIMELIMIT_EXCEEDED"))
  /\ last' = Plain("Search", "", "TIMELIMIT_EXCEEDED")
  /\ pc' = "idle"
  /\ params' = NoParams
  /\ lc_cookie' = 0
  /\ raw' = <<>>
  /\ UNCHANGED <<connected, ldap_obj, entryVars, served, results, peerVars>>

\* a paging loop that sends the request for the next page twice
SearchNextPage_Twice(reply) ==
  /\ pc = "search_ext"
  /\ LET base == IF params.base_dn = "" THEN "dn_root" ELSE params.base_dn
         req == Req("search_ext", base, "SUBTREE", "None", lc_cookie, reply)
     IN requests' = requests \o <<req, req>>
  /\ IF reply = "TIMELIMIT_EXCEEDED"
     THEN /\ last' = Plain("Search", "", "TIMELIMIT_EXCEEDED")
          /\ pc' = "idle"
          /\ params' = NoParams
          /\ lc_cookie' = 0
          /\ raw' = <<>>
     ELSE /\ pc' = "result3"
          /\ UNCHANGED <<last, params, lc_cookie, raw>>
  /\ UNCHANGED <<connected, ldap_obj, entryVars, served, results, peerVars>>

\* Domain.Search, lines 284-288: the request for the next page
SearchNextPage(reply) ==
  /\ pc = "search_ext"
  /\ LET base == IF params.base_dn = "" THEN "dn_root" ELSE params.base_dn
     IN requests' = Append(requests,
                           Req("search_ext", base, "SUBTREE", "None", lc_cookie, reply))
  /\ IF reply = "TIMELIMIT_EXCEEDED"
     THEN /\ last' = Plain("Search", "", "TIMELIMIT_EXCEEDED")
          /\ pc' = "idle"
          /\ params' = NoParams
          /\ lc_cookie' = 0
          /\ raw' = <<>>
     ELSE /\ pc' = "result3"
          /\ UNCHANGED <<last, params, lc_cookie, raw>>
  /\ UNCHANGED <<connected, ldap_obj, entryVars, served, results, peerVars>>

DomainOp(op, r) ==
  /\ pc = "idle"
  /\ server' = r.server
  /\ requests' = Calls(r.sent)
  /\ last' = Plain(op, r.ret, r.exc)
  /\ UNCHANGED <<connected, ldap_obj, properties, snapshot, aliased, local_only,
                 pc, params, lc_cookie, raw, served, results, peerVars>>

ObjectDNs == {GroupDN, "N"}
NewProps == [p \in {"name"} |-> <<Bytes("grp")>>]
CallNewObject(dn, outcome) ==
  DomainOp("NewObject", NewObject(connected, server, dn, NewProps, outcome))

CallDeleteObject(dn, outcome) ==
  DomainOp("DeleteObject", DeleteObject(connected, server, dn, outcome))

CallUpdateObject(dn, v, outcome) ==
  DomainOp("UpdateObject",
           UpdateObject(connected, server, dn, [p \in {"description"} |-> <<Bytes("d1")>>],
                        [p \in {"description"} |-> v], outcome))

\* ---- moving
CallMove(dest, outcome) ==
  LET r == Move(properties, snapshot, aliased, server, connected, dest, outcome)
  IN /\ properties' = r.properties
     /\ snapshot' = r.snapshot
     /\ aliased' = r.aliased
     /\ server' = r.server
     /\ last' = Done("Move", r)
     /\ arg' = <<dest.text>>
     /\ UNCHANGED <<connected, ldap_obj, local_only, searchVars, peer_properties,
                    peer_snapshot, held_by>>

\* ---- type resolution
CallGuessObjectType(is_adobject) ==
  /\ LET r == GuessObjectType(is_adobject, properties, server, connected)
     IN last' = Plain("GuessObjectType", r.ret, r.exc)
  /\ arg' = IF is_adobject THEN <<"ADObject">> ELSE <<"str">>
  /\ UNCHANGED <<connected, ldap_obj, entryVars, searchVars, peer_properties, peer_snapshot,
                 held_by>>

\* ------------------------------------------------------------------ the entry at the start
\* a Group built from a search result (bytes values) or from a caller's dict
InitMembers == {<<>>, <<Bytes("A")>>, <<Bytes("A"), Bytes("B")>>}

InitProps(m) ==
  [p \in MANDATORY_PROPS_DEFAULT \cup {"description", "member"} |->
     CASE p = "distinguishedName" -> <<Str(GroupDN)>>
       [] p = "objectClass" -> <<Bytes("group")>>
       [] p = "objectCategory" -> <<Bytes("Group")>>
       [] p = "name" -> <<Bytes("grp")>>
       [] p = "description" -> <<Bytes("d1")>>
       [] OTHER -> m]


\* no call pending and no second entry
NoPeer ==
  /\ arg = <<>>
  /\ peer_properties = EmptyMap
  /\ peer_snapshot = EmptyMap
  /\ held_by = "entry"

SearchIdle ==
  /\ NoPeer
  /\ pc = "idle"
  /\ params = NoParams
  /\ lc_cookie = 0
  /\ raw = <<>>
  /\ served = <<>>
  /\ requests = <<>>
  /\ results = <<>>

\* the entry as its constructor leaves it: the snapshot is a deep copy
InitEntry(members) ==
  /\ \E m \in members :
       /\ properties = InitProps(m)
       /\ snapshot = InitProps(m)
       /\ server = [p \in {"objectClass", "objectCategory", "name", "description", "member"} |->
                      IF p = "member" THEN Wire(m) ELSE InitProps(m)[p]]
  /\ aliased = {}
  /\ local_only = {}
  /\ last = NoOp
  /\ SearchIdle

\* ------------------------------------------------------------------ Spec: an entry and its commits
Init ==
  /\ connected = TRUE
  /\ ldap_obj = "open"
  /\ InitEntry({<<Bytes("A")>>})

Next ==
  \/ \E p \in AssignProps, v \in AssignValues : Assign(p, v)
  \/ \E o \in StoreOutcomes : CallSetProperties(o)
  \/ \E req \in FetchLists : CallGetProperties(req)
  \/ \E r \in ConnectResults : Connect(r)
  \/ Disconnect

Spec == Init /\ [][Next]_vars

\* ------------------------------------------------------------------ SpecGroup: a group and its members
InitGroup ==
  /\ connected = TRUE
  /\ ldap_obj = "open"
  /\ InitEntry(InitMembers)

\* the store acknowledges a commit or does not
CommitOutcomes == {"ack", "nack"}

NextGroup ==
  \/ \E l \in NameLists, o \in CommitOutcomes : CallAddMembers(l, o)
  \/ \E l \in NameLists, o \in CommitOutcomes : CallDeleteMembers(l, o)
  \/ \E l \in NameLists, o \in CommitOutcomes : CallOverwriteMembers(l, o)
  \/ \E m \in ServerMemberLists : ServerChange(m)

SpecGroup == InitGroup /\ [][NextGroup]_vars

\* ------------------------------------------------------------------ SpecDomain: the Domain and its searches
InitDomain ==
  /\ connected = FALSE
  /\ ldap_obj = "None"
  /\ InitEntry({<<Bytes("A")>>})

Replies == {"ok", "TIMELIMIT_EXCEEDED"}

NextDomain ==
  \/ \E r \in ConnectResults : Connect(r)
  \/ Disconnect
  \/ \E a \in SearchArgs, reply \in Replies : SearchCall(a, reply)
  \/ \E n \in 0..MaxPageLen, c \in Controls : SearchResult3(n, c)
  \/ SearchResult3Timeout
  \/ \E reply \in Replies : SearchNextPage(reply)
  \/ \E dn \in ObjectDNs, o \in {"ok", "error"} : CallNewObject(dn, o)
  \/ \E dn \in ObjectDNs, o \in {"ok", "error"} : CallDeleteObject(dn, o)
  \/ \E dn \in ObjectDNs, v \in AssignValues, o \in StoreOutcomes : CallUpdateObject(dn, v, o)

SpecDomain == InitDomain /\ [][NextDomain]_vars

\* ------------------------------------------------------------------ SpecAnswered: searches the store answers
\* the steps of the paging loop (lines 271-293) once the first request is out
PageStep ==
  \/ \E n \in 0..MaxPageLen, c \in Controls : SearchResult3(n, c)
  \/ SearchNextPage("ok")

\* a store that answers every request of a search
NextAnswered ==
  \/ \E r \in ConnectResults : Connect(r)
  \/ Disconnect
  \/ \E a \in SearchArgs : SearchCall(a, "ok")
  \/ \E n \in 0..MaxPageLen, c \in Controls : SearchResult3(n, c)
  \/ SearchNextPage("ok")

\* the loop runs on as long as the store answers: a pending result3 or request
\* is taken
SpecAnswered == InitDomain /\ [][NextAnswered]_vars /\ WF_vars(PageStep)

\* ------------------------------------------------------------------ SpecUser: a user account
\* a user fetched from the directory, with or without its lockoutTime
UserProps(u, c, with_lockout) ==
  [p \in MANDATORY_PROPS_DEFAULT
         \cup {"userAccountControl", "msDS-User-Account-Control-Computed"}
         \cup (IF with_lockout THEN {"lockoutTime"} ELSE {}) |->
     CASE p = "distinguishedName" -> <<Str(GroupDN)>>
       [] p = "objectClass" -> <<Bytes("user")>>
       [] p = "objectCategory" -> <<Bytes("Person")>>
       [] p = "name" -> <<Bytes("usr")>>
       [] p = "userAccountControl" -> <<Bytes(u)>>
       [] p = "msDS-User-Account-Control-Computed" -> <<Bytes(c)>>
       [] OTHER -> <<Bytes(c)>>]

InitUser ==
  /\ connected = TRUE
  /\ ldap_obj = "open"
  /\ \E u \in UACValues, c \in ComputedValues, with_lockout \in BOOLEAN :
       /\ properties = UserProps(u, c, with_lockout)
       /\ snapshot = UserProps(u, c, with_lockout)
       /\ server = Restrict(UserProps(u, c, TRUE),
                            DOMAIN UserProps(u, c, TRUE) \ {"distinguishedName"})
  /\ aliased = {}
  /\ local_only = {}
  /\ last = NoOp
  /\ SearchIdle

NextUser ==
  \/ \E o \in StoreOutcomes : CallDisable(o)
  \/ \E o \in StoreOutcomes : CallEnable(o)
  \/ \E o \in StoreOutcomes : CallUnlock(o)
  \/ \E req \in UserFetchLists : CallGetProperties(req)
  \/ \E u \in UACValues, c \in ComputedValues : ServerUserChange(u, c)

SpecUser == InitUser /\ [][NextUser]_vars

\* ------------------------------------------------------------------ SpecResolve: entries and their typed views
Categories == Markers \cup {"CN=Domain-DNS"}

\* the entry the directory holds, of a given category
DirectoryEntry(cat) ==
  [p \in {"objectClass", "objectCategory", "name", "sAMAccountName", "description"} |->
     CASE p = "objectCategory" -> <<Bytes(cat)>>
       [] p = "objectClass" -> <<Bytes("top")>>
       [] p = "description" -> <<Bytes("d1")>>
       [] OTHER -> <<Bytes("obj")>>]

\* a dict a caller writes for the entry, with str values
CallerDict(cat) ==
  [p \in MANDATORY_PROPS_DEFAULT \cup {"sAMAccountName", "description"} |->
     CASE p = "distinguishedName" -> <<Str(GroupDN)>>
       [] p = "objectCategory" -> <<Str(cat)>>
       [] p = "objectClass" -> <<Str("top")>>
       [] p = "description" -> <<Str("d1")>>
       [] OTHER -> <<Str("obj")>>]

\* a generic entry, returned by a search or built from a caller's dict, whose
\* category may differ from the one the directory holds
InitResolve ==
  /\ connected = TRUE
  /\ ldap_obj = "open"
  /\ \E cat \in Categories, own \in Categories \cup {"cn=Person"}, searched \in BOOLEAN :
       /\ server = DirectoryEntry(cat)
       /\ properties = IF searched
                       THEN PostProcess(GroupDN, DirectoryEntry(cat))
                       ELSE CallerDict(own)
       /\ snapshot = properties
  /\ aliased = {}
  /\ local_only = {}
  /\ last = NoOp
  /\ SearchIdle

NextResolve ==
  \/ \E is_adobject \in BOOLEAN : CallGuessObjectType(is_adobject)
  \/ \E r \in ConnectResults : Connect(r)
  \/ Disconnect

SpecResolve == InitResolve /\ [][NextResolve]_vars

\* ------------------------------------------------------------------ SpecEntries: entries, how they are built and deleted
\* ---- construction, deletion and a second entry
\* the dicts a caller passes: complete, lacking a mandatory property, lacking
\* a property only User and Computer need, lacking the distinguishedName
CallerDicts ==
  LET d == CallerDict("CN=Person")
  IN {d} \cup {Restrict(d, DOMAIN d \ {p}) :
                 p \in {"name", "sAMAccountName", "distinguishedName"}}

\* the record Domain.Search hands to the constructor
SearchDict(srv) == PostProcess(GroupDN, ServerRecord(srv, DOMAIN srv))

\* the DN and the properties a caller passes to a constructor: a dict, or a
\* list of names for an entry the directory holds or does not hold
ConstructorArgs ==
  {<<GroupDN, DictArg(d)>> : d \in CallerDicts}
    \cup {<<GroupDN, ListArg({})>>, <<GroupDN, ListArg({"description"})>>, <<"N", ListArg({})>>}

\* obj = cls(dn, a, domain)
NewEntry(cls, dn, a) ==
  LET c == Construct(cls, dn, a, server, connected)
  IN /\ IF c.exc # ""
        THEN /\ last' = Plain(cls, "", c.exc)
             /\ UNCHANGED <<properties, snapshot, aliased, held_by>>
        ELSE /\ last' = Plain(cls, "None", "")
             /\ properties' = c.properties
             /\ snapshot' = c.snapshot
             /\ aliased' = c.aliased
             /\ held_by' = IF a.kind = "dict" THEN "caller" ELSE "entry"
     /\ UNCHANGED <<connected, ldap_obj, server, local_only, searchVars, arg,
                    peer_properties, peer_snapshot>>

\* peer = ADObject(dn, d, domain), d being the dict the first entry was built
\* from (same = TRUE) or the record of a search
NewPeer(same) ==
  /\ IF same THEN held_by \in {"caller", "peer"} ELSE DOMAIN server # {}
  /\ LET d == IF same THEN properties ELSE SearchDict(server)
         c == Construct("ADObject", GroupDN, DictArg(d), server, connected)
     IN IF c.exc # ""
        THEN /\ last' = Plain("peer", "", c.exc)
             /\ UNCHANGED <<properties, peer_properties, peer_snapshot, held_by>>
        ELSE /\ last' = Plain("peer", "None", "")
             /\ peer_properties' = c.properties
             /\ peer_snapshot' = c.snapshot
             /\ properties' = IF same THEN c.properties ELSE properties
             /\ held_by' = IF same THEN "peer"
                           ELSE IF held_by = "peer" THEN "caller" ELSE held_by
  /\ UNCHANGED <<connected, ldap_obj, snapshot, aliased, server, local_only, searchVars, arg>>

\* obj.properties['description'] = v on the first entry (who = 1) or on the
\* second (who = 2): an assignment into the dict, seen through every name it has
AssignEntry(who, v) ==
  /\ who = 2 => peer_properties # EmptyMap
  /\ LET d == Override(IF who = 1 THEN properties ELSE peer_properties,
                       [p \in {"description"} |-> v])
     IN /\ properties' = IF who = 1 \/ held_by = "peer" THEN d ELSE properties
        /\ peer_properties' = IF who = 2 \/ held_by = "peer" THEN d ELSE peer_properties
  /\ aliased' = aliased \ {"description"}
  /\ last' = Plain("Assign", "None", "")
  /\ UNCHANGED <<connected, ldap_obj, snapshot, server, local_only, searchVars, arg,
                 peer_snapshot, held_by>>

\* peer.SetProperties(), the second entry's Domain being connected
PeerSetProperties(outcome) ==
  /\ peer_properties # EmptyMap
  /\ LET r == SetProperties(peer_properties, peer_snapshot, {}, server, TRUE, outcome)
     IN /\ peer_snapshot' = r.snapshot
        /\ server' = r.server
        /\ last' = Done("peer.SetProperties", r)
  /\ UNCHANGED <<connected, ldap_obj, properties, snapshot, aliased, local_only, searchVars,
                 arg, peer_properties, held_by>>

DeleteOutcomes == {"ok", "error"}

\* obj.Delete()
CallDelete(outcome) ==
  /\ LET r == Delete(properties, snapshot, aliased, server, connected, outcome)
     IN /\ properties' = r.properties
        /\ snapshot' = r.snapshot
        /\ aliased' = r.aliased
        /\ server' = r.server
        /\ last' = Done("Delete", r)
        /\ held_by' = IF r.exc = "" THEN "entry" ELSE held_by
  /\ UNCHANGED <<connected, ldap_obj, local_only, searchVars, arg, peer_properties,
                 peer_snapshot>>

EntryValues == {<<Bytes("d2")>>, <<Bytes("d3")>>}

\* an entry built from a complete dict, which needs no fetch, on a Domain
\* that is connected or is not, and no second entry
InitEntries ==
  /\ connected \in BOOLEAN
  /\ ldap_obj = IF connected THEN "open" ELSE "None"
  /\ server = DirectoryEntry("CN=Person")
  /\ properties = CallerDict("CN=Person")
  /\ snapshot = properties
  /\ aliased = {}
  /\ local_only = {}
  /\ last = NoOp
  /\ arg = <<>>
  /\ peer_properties = EmptyMap
  /\ peer_snapshot = EmptyMap
  /\ held_by = "caller"
  /\ pc = "idle"
  /\ params = NoParams
  /\ lc_cookie = 0
  /\ raw = <<>>
  /\ served = <<>>
  /\ requests = <<>>
  /\ results = <<>>

NextEntries ==
  \/ \E cls \in Classes, a \in ConstructorArgs : NewEntry(cls, a[1], a[2])
  \/ \E same \in BOOLEAN : NewPeer(same)
  \/ \E who \in {1, 2}, v \in EntryValues : AssignEntry(who, v)
  \/ \E o \in DeleteOutcomes : CallDelete(o)

SpecEntries == InitEntries /\ [][NextEntries]_vars

\* ------------------------------------------------------------------ SpecSessions: two sessions, one entry each
\* each session fetched the entry while the directory held the same values
InitSessions ==
  /\ connected = TRUE
  /\ ldap_obj = "open"
  /\ server = DirectoryEntry("CN=Person")
  /\ properties = SearchDict(server)
  /\ snapshot = properties
  /\ aliased = {}
  /\ local_only = {}
  /\ last = NoOp
  /\ arg = <<>>
  /\ peer_properties = SearchDict(server)
  /\ peer_snapshot = peer_properties
  /\ held_by = "entry"
  /\ pc = "idle"
  /\ params = NoParams
  /\ lc_cookie = 0
  /\ raw = <<>>
  /\ served = <<>>
  /\ requests = <<>>
  /\ results = <<>>

NextSessions ==
  \/ \E who \in {1, 2}, v \in EntryValues : AssignEntry(who, v)
  \/ \E o \in StoreOutcomes : CallSetProperties(o)
  \/ \E o \in StoreOutcomes : PeerSetProperties(o)

SpecSessions == InitSessions /\ [][NextSessions]_vars

\* ------------------------------------------------------------------ SpecFilter: the filters of the lookups
RECURSIVE TextsUpTo(_)
TextsUpTo(n) ==
  IF n = 0 THEN {<<>>}
  ELSE LET shorter == TextsUpTo(n - 1)
       IN shorter \cup {Append(t, c) : t \in shorter, c \in Alphabet}

\* the texts a caller passes, as str or as bytes
Texts == {Str(t) : t \in TextsUpTo(MaxText)} \cup {Bytes(t) : t \in TextsUpTo(MaxText)}

\* a lookup builds the filter it passes to Domain.Search from the text
BuildFilter(lookup, n) ==
  /\ LET f == Filter(lookup, arg, n)
     IN last' = IF Raises(f) THEN Plain(lookup, <<>>, f[2]) ELSE Plain(lookup, f[2], "")
  /\ UNCHANGED <<connected, ldap_obj, entryVars, searchVars, peerVars>>

InitFilter ==
  /\ connected = TRUE
  /\ ldap_obj = "open"
  /\ properties = InitProps(<<>>)
  /\ snapshot = properties
  /\ server = Restrict(properties, DOMAIN properties \ {"distinguishedName"})
  /\ aliased = {}
  /\ local_only = {}
  /\ last = NoOp
  /\ arg \in Texts
  /\ peer_properties = EmptyMap
  /\ peer_snapshot = EmptyMap
  /\ held_by = "entry"
  /\ pc = "idle"
  /\ params = NoParams
  /\ lc_cookie = 0
  /\ raw = <<>>
  /\ served = <<>>
  /\ requests = <<>>
  /\ results = <<>>

NextFilter ==
  \E lookup \in FilterLookups, n \in -1..MaxText :
    /\ (lookup = "GetComputerByName" /\ arg[1] = "str") => n <= Len(arg[2])
    /\ (lookup # "GetComputerByName" \/ arg[1] # "str") => n = -1
    /\ BuildFilter(lookup, n)

SpecFilter == InitFilter /\ [][NextFilter]_vars

\* ------------------------------------------------------------------ SpecTime: tick counts and their conversion
\* tick counts at and after the Unix epoch, as whole seconds and the ticks
\* of the second begun
SecondsValues == {0, 1, 2, 86400, 536870912, 1073741823, 1073741824, 1234567890,
                  1700000000, 2000000000}
TicksValues == {0, 1, 4999999, 5000000, 9999998, 9999999}

CallADFileTimeToUnix ==
  /\ last' = Plain("ADFileTimeToUnix", ADFileTimeToUnix(arg.seconds, arg.ticks), "")
  /\ UNCHANGED <<connected, ldap_obj, entryVars, searchVars, peerVars>>

InitTime ==
  /\ connected = FALSE
  /\ ldap_obj = "None"
  /\ properties = EmptyMap
  /\ snapshot = EmptyMap
  /\ server = EmptyMap
  /\ aliased = {}
  /\ local_only = {}
  /\ last = NoOp
  /\ arg \in [seconds : SecondsValues, ticks : TicksValues]
  /\ peer_properties = EmptyMap
  /\ peer_snapshot = EmptyMap
  /\ held_by = "entry"
  /\ pc = "idle"
  /\ params = NoParams
  /\ lc_cookie = 0
  /\ raw = <<>>
  /\ served = <<>>
  /\ requests = <<>>
  /\ results = <<>>

NextTime == CallADFileTimeToUnix

SpecTime == InitTime /\ [][NextTime]_vars

\* ------------------------------------------------------------------ SpecFlags: a user's flags
Flags == {"disabled", "locked_out", "pwd_expired", "pwd_never_expires"}

\* the computed control values: lockout and password expiry, set or clear
FlagComputedValues == {0, 16, 8388608, 8388624}

\* the attribute a flag is read from (lines 785-803)
FlagAttribute(f) ==
  IF f \in {"disabled", "pwd_never_expires"}
  THEN "userAccountControl"
  ELSE "msDS-User-Account-Control-Computed"

\* user.disabled, user.locked_out, user.pwd_expired, user.pwd_never_expires
ReadFlag(f) ==
  /\ IF FlagAttribute(f) \notin DOMAIN properties
     THEN last' = Plain(f, "", "KeyError")
     ELSE LET v == CASE f = "disabled" -> disabled(properties)
                     [] f = "locked_out" -> locked_out(properties)
                     [] f = "pwd_expired" -> pwd_expired(properties)
                     [] OTHER -> pwd_never_expires(properties)
          IN last' = Plain(f, IF v THEN "True" ELSE "False", "")
  /\ UNCHANGED <<connected, ldap_obj, entryVars, searchVars, peerVars>>

InitFlags ==
  /\ connected \in BOOLEAN
  /\ ldap_obj = IF connected THEN "open" ELSE "None"
  /\ \E u \in UACValues, c \in FlagComputedValues :
       /\ properties = UserProps(u, c, TRUE)
       /\ snapshot = properties
       /\ server = Restrict(properties, DOMAIN properties \ {"distinguishedName"})
  /\ aliased = {}
  /\ local_only = {}
  /\ last = NoOp
  /\ SearchIdle

NextFlags == \E f \in Flags : ReadFlag(f)

SpecFlags == InitFlags /\ [][NextFlags]_vars

\* ------------------------------------------------------------------ SpecAccount: a user built from a dict
\* the computed control value of a caller's dict, <<present, value>>: none, or
\* lockout clear or set
DictComputedValues == {<<FALSE, 0>>, <<TRUE, 0>>, <<TRUE, ADS_UF_LOCKOUT>>}

\* userAccountControl of a caller's dict: a normal account, with and without
\* the lockout bit
DictUACValues == {512, 528}

\* the dict of properties a caller builds a User from
UserDict(u, c) ==
  [p \in MANDATORY_PROPS_USER \cup {"userAccountControl"}
         \cup (IF c[1] THEN {"msDS-User-Account-Control-Computed"} ELSE {}) |->
     CASE p = "distinguishedName" -> <<Str(GroupDN)>>
       [] p = "objectClass" -> <<Str("user")>>
       [] p = "objectCategory" -> <<Str("cn=Person")>>
       [] p = "userAccountControl" -> <<Str(u)>>
       [] p = "msDS-User-Account-Control-Computed" -> <<Str(c[2])>>
       [] OTHER -> <<Str("usr")>>]

\* user = User(dn, props, domain)
InitAccount ==
  /\ connected \in BOOLEAN
  /\ ldap_obj = IF connected THEN "open" ELSE "None"
  /\ \E u \in DictUACValues, c \in DictComputedValues, sc \in {0, ADS_UF_LOCKOUT} :
       /\ server = Restrict(UserProps(u, sc, TRUE),
                            DOMAIN UserProps(u, sc, TRUE) \ {"distinguishedName"})
       /\ LET e == Construct("User", GroupDN, DictArg(UserDict(u, c)), server, connected)
          IN /\ e.exc = ""
             /\ properties = e.properties
             /\ snapshot = e.snapshot
             /\ aliased = e.aliased
  /\ local_only = {}
  /\ last = NoOp
  /\ pc = "idle"
  /\ params = NoParams
  /\ lc_cookie = 0
  /\ raw = <<>>
  /\ served = <<>>
  /\ requests = <<>>
  /\ results = <<>>
  /\ arg = <<>>
  /\ peer_properties = EmptyMap
  /\ peer_snapshot = EmptyMap
  /\ held_by = "caller"

NextAccount == \E f \in Flags : ReadFlag(f)

SpecAccount == InitAccount /\ [][NextAccount]_vars

\* ------------------------------------------------------------------ SpecRecords: from records to entries
\* the property lists a search asks the store for: everything, or some names
RequestedLists(srv) == {DOMAIN srv, {"name"}, {"objectClass", "sAMAccountName"}}

\* the records a response can hold for the entry: a referral, which has no
\* key, or the entry with the attributes asked for that it has
RecordsOf(srv) ==
  {[key |-> "None", attrs |-> EmptyMap]}
    \cup {[key |-> GroupDN, attrs |-> ServerRecord(srv, req)] : req \in RequestedLists(srv)}

\* the responses of one search: up to two records
RecordLists(srv) ==
  {<<>>} \cup {<<r>> : r \in RecordsOf(srv)}
         \cup {<<r1, r2>> : r1 \in RecordsOf(srv), r2 \in RecordsOf(srv)}

\* Domain.Search, lines 295-306: the records with a key, each backfilled,
\* given its distinguishedName and handed to the constructor of the class
RECURSIVE BuildEntries(_, _, _, _)
BuildEntries(records, cls, srv, conn) ==
  IF records = <<>> THEN [entries |-> <<>>, exc |-> "", sent |-> <<>>]
  ELSE LET r == Head(records)
           rest == BuildEntries(Tail(records), cls, srv, conn)
       IN IF r.key = "None" THEN rest
          ELSE LET e == Construct(cls, r.key, DictArg(PostProcess(r.key, r.attrs)), srv, conn)
               IN IF e.exc # "" THEN [entries |-> <<>>, exc |-> e.exc, sent |-> e.sent]
                  ELSE [entries |-> <<[class |-> cls, dn |-> r.key,
                                       properties |-> e.properties]>> \o rest.entries,
                        exc |-> rest.exc,
                        sent |-> e.sent \o rest.sent]

\* domain.Search(filter, obj_class=cls), the store answering with records
SearchRecords(cls, records) ==
  /\ pc = "idle"
  /\ served' = records
  /\ IF ~connected
     THEN /\ last' = Plain("Search", "", "ADDomainNotConnectedError")
          /\ requests' = <<>>
          /\ results' = <<>>
          /\ arg' = <<>>
     ELSE LET b == BuildEntries(records, cls, server, connected)
          IN /\ requests' = Calls(<<"search_ext", "result3">> \o b.sent)
             /\ arg' = <<cls>>
             /\ IF b.exc # ""
                THEN /\ last' = Plain("Search", "", b.exc)
                     /\ results' = <<>>
                ELSE /\ last' = Plain("Search", "list", "")
                     /\ results' = b.entries
  /\ UNCHANGED <<connected, ldap_obj, entryVars, pc, params, lc_cookie, raw,
                 peer_properties, peer_snapshot, held_by>>

InitRecords ==
  /\ connected \in BOOLEAN
  /\ ldap_obj = IF connected THEN "open" ELSE "None"
  /\ properties = CallerDict("CN=Person")
  /\ snapshot = properties
  /\ \E held \in SUBSET {"name", "sAMAccountName"} :
       server = Restrict(DirectoryEntry("CN=Person"),
                         {"objectClass", "objectCategory", "description"} \cup held)
  /\ aliased = {}
  /\ local_only = {}
  /\ last = NoOp
  /\ SearchIdle

NextRecords == \E cls \in Classes, records \in RecordLists(server) : SearchRecords(cls, records)

SpecRecords == InitRecords /\ [][NextRecords]_vars

\* ------------------------------------------------------------------ SpecMove: an entry that is moved
InitMove ==
  /\ connected \in BOOLEAN
  /\ ldap_obj = IF connected THEN "open" ELSE "None"
  /\ InitEntry({<<Bytes("A")>>})

NextMove ==
  \/ \E dest \in Destinations, o \in StoreOutcomes : CallMove(dest, o)
  \/ \E p \in AssignProps, v \in AssignValues : Assign(p, v)
  \/ \E o \in StoreOutcomes : CallSetProperties(o)

SpecMove == InitMove /\ [][NextMove]_vars

\* ================================================================== claims
\* the commit an entry in the current state would make, the store answering o
Commit(o) == SetProperties(properties, snapshot, aliased, server, connected, o)
\* the keys of the baseline whose current value differs from the baseline value
Differing == {p \in DOMAIN snapshot : properties[p] # snapshot[p]}

C2_AckedCommitRenewsBaseline ==
  /\ \A o \in StoreOutcomes :
       LET r == Commit(o)
       IN (connected /\ o = "ack" /\ ServerAccepts(r.calls[1].new)) =>
            /\ r.ret = "True"
            /\ r.properties = properties
            /\ r.snapshot = properties
            /\ r.aliased = {}
            /\ \A o2 \in StoreOutcomes :
                 LET r2 == SetProperties(r.properties, r.snapshot, r.aliased, r.server,
                                         connected, o2)
                 IN /\ DOMAIN r2.calls[1].new = {}
                    /\ DOMAIN r2.calls[1].old = {}
                    /\ o2 = "ack" => r2.ret = "True"
  /\ (last.op = "SetProperties" /\ last.ret = "True") =>
       (snapshot = properties /\ aliased = {} /\ Differing = {})

\* an acknowledged commit with an empty changeset, made after an earlier
\* commit had carried a changed description to the server
C2_Witness ==
  /\ last.op = "SetProperties"
  /\ last.ret = "True"
  /\ last.keys = {}
  /\ server["description"] # <<Bytes("d1")>>
  /\ "mail" \in DOMAIN properties

\* C3: a commit the store does not acknowledge returns false and leaves the
\* properties and the baseline as they were, whatever the entry holds.
C3_FailedCommitChangesNothing ==
  [][(last'.op = "SetProperties" /\ last'.ret = "False") =>
       (properties' = properties /\ snapshot' = snapshot)]_vars

\* C4: an attribute the caller assigned and the entry never fetched is in no
\* changeset until a commit is acknowledged, a retry after a refused commit
\* included.
C4_UnfetchedNeverTransmitted ==
  [][last'.op = "SetProperties" => last'.keys \cap local_only = {}]_vars


\* ---- searches
SearchReturned == last.op = "Search" /\ last.ret = "list" /\ pc = "idle"
Keyed(records) == SelectSeq(records, LAMBDA r : r.key # 0)

\* C5 (as stated): a Search that returns has one entry for every record of every
\* page the server sent, exactly once each and in the server's order.
C5_OneEntryPerRecord ==
  SearchReturned =>
    /\ Len(results) = Len(served)
    /\ \A i \in 1..Len(served) : results[i].dn = served[i].key

\* C5 (amended): a Search that returns has one entry for every record that
\* carries an identity key, of every page the server sent, exactly once each and
\* in the server's order; the pages it asked for follow one another without a
\* gap or a repetition.
C5_OneEntryPerKeyedRecord ==
  SearchReturned =>
    /\ served = [i \in 1..Len(served) |-> Record(i)]
    /\ Len(results) = Len(Keyed(served))
    /\ \A i \in 1..Len(results) :
         /\ results[i].dn = Keyed(served)[i].key
         /\ results[i].class = "ADObject"
         /\ results[i].properties["distinguishedName"] = <<Keyed(served)[i].key>>

C5_Witness ==
  /\ SearchReturned
  /\ PagesSoFar = MaxPages
  /\ Len(served) > MaxPageLen
  /\ Len(results) >= 2
  /\ Len(results) < Len(served)

\* C6: a time limit the store reports at any point of a search, the first
\* request, a result3 or a later request, makes Search raise QueryTimeoutError
\* and return no partial result.
C6_TimeLimitRaisesQueryTimeoutError ==
  (/\ last.op = "Search"
   /\ pc = "idle"
   /\ \E i \in 1..Len(requests) : requests[i].reply = "TIMELIMIT_EXCEEDED")
  => (last.exc = "QueryTimeoutError" /\ results = <<>>)

\* C7: on a Domain that is not connected Search, NewObject, UpdateObject and
\* DeleteObject raise ADDomainNotConnectedError and send the store no request.
DomainOps == {"Search", "NewObject", "UpdateObject", "DeleteObject"}
C7_NotConnectedRaisesAndSendsNothing ==
  ~connected =>
    /\ (pc = "idle" /\ last.op \in DomainOps) =>
         (last.exc = "ADDomainNotConnectedError" /\ requests = <<>>)
    /\ \A dn \in ObjectDNs, o \in StoreOutcomes, o2 \in {"ok", "error"} :
         LET u == UpdateObject(connected, server, dn, EmptyMap, EmptyMap, o)
             n == NewObject(connected, server, dn, NewProps, o2)
             d == DeleteObject(connected, server, dn, o2)
         IN /\ u.exc = "ADDomainNotConnectedError" /\ u.sent = <<>> /\ u.server = server
            /\ n.exc = "ADDomainNotConnectedError" /\ n.sent = <<>> /\ n.server = server
            /\ d.exc = "ADDomainNotConnectedError" /\ d.sent = <<>> /\ d.server = server

C7_Witness ==
  /\ ~connected
  /\ ldap_obj = "closed"
  /\ last.op = "Search"
  /\ last.exc = "ADDomainNotConnectedError"

\* ---- groups
\* some entry the names resolve to is already a member
AlreadyMember(list) == \E dn \in Range(ResolvedDNs(list)) : dn[2] \in DNsOf(properties["member"])
\* some entry the names resolve to is not a member
NotAMember(list) == \E dn \in Range(ResolvedDNs(list)) : dn[2] \notin DNsOf(properties["member"])

\* C8: AddMembers raises ADGroupMemberExistsError when any entry the names
\* resolve to is already in the member list, and then changes no member and
\* issues no commit.
C8_AddExistingMemberRaises ==
  [][\A l \in NameLists, o \in CommitOutcomes :
       (CallAddMembers(l, o) /\ AlreadyMember(l)) =>
         /\ last'.exc = "ADGroupMemberExistsError"
         /\ last'.ncalls = 0
         /\ properties' = properties]_vars

\* C9: an AddMembers that does not raise leaves the member list holding the old
\* members and the resolved ones, and issues exactly one commit whose changeset
\* carries the new member value.
C9_AddCommitsTheUnion ==
  [][\A l \in NameLists, o \in CommitOutcomes :
       (CallAddMembers(l, o) /\ last'.exc = "" /\ Resolvable(l) # <<>>) =>
         /\ DNsOf(properties'["member"]) =
              DNsOf(properties["member"]) \cup DNsOf(ResolvedDNs(l))
         /\ last'.ncalls = 1
         /\ "member" \in last'.keys]_vars

\* the store returns a member attribute for the group: an attribute without a
\* value is left out of the record
StoreHoldsMembers == "member" \in DOMAIN server /\ server["member"] # <<>>

AllMembers(list) == Resolvable(list) # <<>> /\ ~NotAMember(list)
\* some name of the list does not resolve
Unresolved(list) == \E i \in 1..Len(list) : GetObjectByName(list[i]) = ""
\* no distinguished name occurs twice in the list
NoRepeat(list) == Cardinality(DNsOf(list)) = Len(list)

\* C11: when every entry the names resolve to is a member, DeleteMembers leaves
\* the previous members without the resolved ones and issues one commit.
C11_DeleteRemovesTheResolved ==
  [][\A l \in NameLists, o \in CommitOutcomes :
       (CallDeleteMembers(l, o) /\ AllMembers(l)) =>
         /\ last'.exc = ""
         /\ last'.ncalls = 1
         /\ DNsOf(properties'["member"]) =
              DNsOf(properties["member"]) \ DNsOf(ResolvedDNs(l))]_vars

\* C12: OverwriteMembers raises ADObjectNotFoundError when any name does not
\* resolve; the member value and the baseline are then as before, no commit is
\* issued and the store is not written.
C12_OverwriteUnresolvedRaises ==
  \A l \in {n \in NameLists : Unresolved(n)}, o \in CommitOutcomes :
    LET r == OverwriteMembers(properties, snapshot, aliased, server, connected, l, o)
    IN (connected /\ Unresolved(l)) =>
         /\ r.exc = "ADObjectNotFoundError"
         /\ r.properties = properties
         /\ r.snapshot = snapshot
         /\ r.calls = <<>>
         /\ r.server = server
         /\ \A i \in 1..Len(r.sent) : r.sent[i] = "search_ext"

C12_Witness ==
  /\ last.op = "OverwriteMembers"
  /\ last.exc = "ADObjectNotFoundError"
  /\ last.ncalls = 0
  /\ last.skipped = 1
  /\ properties["member"] # <<>>

\* C13: OverwriteMembers with every name resolved returns success without
\* changing member and without a write when the resolved set is the current
\* member set, and otherwise replaces member by the resolved set and issues one
\* commit.
C13_OverwriteSameSetWritesNothing ==
  [][\A l \in NameLists, o \in CommitOutcomes :
       (CallOverwriteMembers(l, o) /\ ~Unresolved(l)) =>
         IF DNsOf(ResolvedDNs(l)) = DNsOf(properties["member"])
         THEN /\ last'.ret = "True"
              /\ last'.ncalls = 0
              /\ properties'["member"] = properties["member"]
              /\ server' = server
         ELSE /\ DNsOf(properties'["member"]) = DNsOf(ResolvedDNs(l))
              /\ last'.ncalls = 1]_vars

\* C14: for AddMembers, DeleteMembers and OverwriteMembers the outcome and the
\* resulting member set are the same for every list of the same names, in any
\* order and with any repetition, and afterwards no distinguished name occurs
\* twice in member.
SameNames(l1, l2) == Range(l1) = Range(l2)
C14_OrderAndRepetitionDoNotMatter ==
  [][\A l \in NameLists, o \in CommitOutcomes :
       /\ CallAddMembers(l, o) =>
            /\ last'.exc = "" => NoRepeat(properties'["member"])
            /\ \A l2 \in NameLists : SameNames(l, l2) =>
                 LET r == AddMembers(properties, snapshot, aliased, server, connected, l2, o)
                 IN r.exc = last'.exc /\ DNsOf(r.properties["member"]) = DNsOf(properties'["member"])
       /\ CallDeleteMembers(l, o) =>
            /\ last'.exc = "" => NoRepeat(properties'["member"])
            /\ \A l2 \in NameLists : SameNames(l, l2) =>
                 \A nl \in RemainingLists(properties, l2) :
                   LET r == DeleteMembers(properties, snapshot, aliased, server, connected,
                                          l2, nl, o)
                   IN r.exc = last'.exc /\ DNsOf(r.properties["member"]) = DNsOf(properties'["member"])
       /\ CallOverwriteMembers(l, o) =>
            /\ last'.exc = "" => NoRepeat(properties'["member"])
            /\ \A l2 \in NameLists : SameNames(l, l2) =>
                 LET r == OverwriteMembers(properties, snapshot, aliased, server, connected,
                                           l2, o)
                 IN r.exc = last'.exc /\ DNsOf(r.properties["member"]) = DNsOf(properties'["member"])
    ]_vars

\* C15: AddMembers and DeleteMembers skip every name that does not resolve: it
\* raises nothing, and the outcome, the member list, the baseline and the commit
\* are those of the call with the resolvable names alone.
C15_UnresolvedNamesAreSkipped ==
  \A l \in {n \in NameLists : Unresolved(n)}, o \in CommitOutcomes :
    /\ LET r == AddMembers(properties, snapshot, aliased, server, connected, l, o)
           q == AddMembers(properties, snapshot, aliased, server, connected,
                           Resolvable(l), o)
       IN /\ r.exc = q.exc /\ r.ret = q.ret
          /\ r.exc # "ADObjectNotFoundError"
          /\ r.properties = q.properties /\ r.snapshot = q.snapshot
          /\ r.calls = q.calls /\ r.server = q.server
    /\ \A nl \in RemainingLists(properties, l) :
         LET r == DeleteMembers(properties, snapshot, aliased, server, connected, l, nl, o)
             q == DeleteMembers(properties, snapshot, aliased, server, connected,
                                Resolvable(l), nl, o)
         IN /\ r.exc = q.exc /\ r.ret = q.ret
            /\ r.exc # "ADObjectNotFoundError"
            /\ r.properties = q.properties /\ r.snapshot = q.snapshot
            /\ r.calls = q.calls /\ r.server = q.server

\* an AddMembers of two names, one of which did not resolve, added the other
C15_Witness ==
  /\ last.op = "AddMembers"
  /\ last.ret = "True"
  /\ last.skipped = 1
  /\ last.keys = {"member"}
  /\ properties["member"] = <<Bytes("A")>>
  /\ server["member"] = <<Bytes("A")>>

\* C16: the three operations agree on who is a member: after an AddMembers that
\* succeeded, a second AddMembers of the same names raises
\* ADGroupMemberExistsError, a DeleteMembers of them succeeds and brings back the
\* previous member set, and an OverwriteMembers with the names of exactly the
\* members writes nothing.
C16_MembershipTestsAgree ==
  [][\A l \in NameLists, o \in CommitOutcomes :
       (CallAddMembers(l, o) /\ last'.ret = "True" /\ Resolvable(l) # <<>>) =>
         /\ AddMembers(properties', snapshot', aliased', server', connected, l,
                       "ack").exc = "ADGroupMemberExistsError"
         /\ \A nl \in RemainingLists(properties', l) :
              LET d == DeleteMembers(properties', snapshot', aliased', server', connected,
                                     l, nl, "ack")
              IN d.exc = "" /\ DNsOf(d.properties["member"]) = DNsOf(properties["member"])
         /\ \A l2 \in NameLists :
              (~Unresolved(l2) /\ DNsOf(ResolvedDNs(l2)) = DNsOf(properties'["member"])) =>
                OverwriteMembers(properties', snapshot', aliased', server', connected, l2,
                                 "ack").calls = <<>>]_vars

\* ---- users
\* the operation raised exc and left the entry, the store and the wire alone
Rejected(r, exc) ==
  /\ r.exc = exc
  /\ r.calls = <<>>
  /\ r.sent = <<>>
  /\ r.properties = properties
  /\ r.snapshot = snapshot
  /\ r.server = server

\* C17: a transition that would change nothing is rejected without effect:
\* Disable on a disabled user raises UserNotEnabledError, Enable on a user that
\* is not disabled raises UserNotDisabledError, Unlock on a user that is not
\* locked out raises UserNotLockedOutError; no commit is issued and properties
\* and baseline stay as they are.
C17_NoOpTransitionRejected ==
  /\ \A o \in StoreOutcomes :
       /\ disabled(properties) =>
            Rejected(Disable(properties, snapshot, aliased, server, connected, o),
                     "UserNotEnabledError")
       /\ ~disabled(properties) =>
            Rejected(Enable(properties, snapshot, aliased, server, connected, o),
                     "UserNotDisabledError")
       /\ ~locked_out(properties) =>
            Rejected(Unlock(properties, snapshot, aliased, server, connected, o),
                     "UserNotLockedOutError")
  /\ last.exc \in {"UserNotEnabledError", "UserNotDisabledError", "UserNotLockedOutError"}
       => last.ncalls = 0

\* a second Disable, after one the store acknowledged, was rejected
C17_Witness ==
  /\ last.op = "Disable"
  /\ last.exc = "UserNotEnabledError"
  /\ disabled(properties)
  /\ properties["userAccountControl"][1][1] = "str"
  /\ snapshot = properties

\* the flags of userAccountControl other than ADS_UF_ACCOUNTDISABLE
OtherBits(v) == BitAnd(v, BitXor(v, ADS_UF_ACCOUNTDISABLE))

\* C18: Disable on a user whose disable bit is clear sets exactly that bit of
\* userAccountControl, issues one commit that carries the new value, returns
\* true when the store acknowledges, and afterwards disabled is true.
C18_DisableSetsTheBit ==
  \A o \in StoreOutcomes :
    LET r == Disable(properties, snapshot, aliased, server, connected, o)
        before == user_account_control(properties)
        after == user_account_control(r.properties)
    IN ~disabled(properties) =>
         /\ after = before + ADS_UF_ACCOUNTDISABLE
         /\ OtherBits(after) = OtherBits(before)
         /\ BitmaskBool(after, ADS_UF_ACCOUNTDISABLE)
         /\ disabled(r.properties)
         /\ Len(r.calls) = 1
         /\ "userAccountControl" \in DOMAIN r.calls[1].new
         /\ r.calls[1].new["userAccountControl"] = <<Str(after)>>
         /\ r.calls[1].old["userAccountControl"] = snapshot["userAccountControl"]
         /\ o = "ack" => (r.ret = "True" /\ r.server["userAccountControl"] = <<Bytes(after)>>)

C18_Witness ==
  /\ last.op = "Disable"
  /\ last.ret = "True"
  /\ last.ncalls = 1
  /\ last.keys = {"userAccountControl"}
  /\ properties["userAccountControl"] = <<Str(66050)>>
  /\ server["userAccountControl"] = <<Bytes(66050)>>

\* C19: the value Disable and Enable return tells whether the server holds the
\* new state: when the store does not acknowledge the commit, the operation
\* returns false although the entry was changed locally.
C19_ReturnReportsTheServer ==
  [][/\ (CallDisable("nack") /\ ~disabled(properties)) => last'.ret = "False"
     /\ (CallEnable("nack") /\ disabled(properties)) => last'.ret = "False"]_vars

\* C20: Enable on a disabled user clears exactly the ADS_UF_ACCOUNTDISABLE bit
\* of userAccountControl, issues one commit, returns true when the store
\* acknowledges, and afterwards disabled is false.
C20_EnableClearsTheBit ==
  [][\A o \in StoreOutcomes :
       (CallEnable(o) /\ disabled(properties)) =>
         /\ user_account_control(properties') =
              user_account_control(properties) - ADS_UF_ACCOUNTDISABLE
         /\ ~disabled(properties')
         /\ last'.ncalls = 1
         /\ o = "ack" => last'.ret = "True"]_vars

\* the computed control value the store holds says the account is locked out
StoreLockedOut(srv) ==
  BitmaskBool(srv["msDS-User-Account-Control-Computed"][1][2], ADS_UF_LOCKOUT)

\* C21: Unlock on a locked-out user sets lockoutTime to ['0'] in the entry,
\* then issues one commit (which carries that value when lockoutTime is in
\* the baseline), then fetches msDS-User-Account-Control-Computed from the
\* store, and returns true exactly when the fetched value has the lockout bit
\* clear.
C21_UnlockCommitsThenRefetches ==
  \A o \in {"ack", "nack"} :
    LET r == Unlock(properties, snapshot, aliased, server, connected, o)
        c == "msDS-User-Account-Control-Computed"
    IN locked_out(properties) =>
         /\ r.exc = ""
         /\ r.properties["lockoutTime"] = <<Str(0)>>
         /\ Len(r.calls) = 1
         /\ ("lockoutTime" \in DOMAIN snapshot /\ snapshot["lockoutTime"] # <<Str(0)>>)
              => r.calls[1].new["lockoutTime"] = <<Str(0)>>
         /\ r.sent = <<"modify_s", "search_ext">>
         /\ r.properties[c] = r.server[c]
         /\ r.ret = (IF StoreLockedOut(r.server) THEN "False" ELSE "True")

\* an Unlock the store acknowledged found the account no longer locked out
C21_Witness ==
  /\ last.op = "Unlock"
  /\ last.ret = "True"
  /\ last.ncalls = 1
  /\ "lockoutTime" \in last.keys
  /\ properties["lockoutTime"] = <<Str(0)>>
  /\ ~StoreLockedOut(server)
  /\ ~locked_out(properties)

\* ---- type resolution
\* the class the claim assigns to a marker
ClassOf(marker) ==
  CASE marker = "CN=Computer" -> "Computer"
    [] marker = "CN=Person" -> "User"
    [] marker = "CN=Group" -> "Group"
    [] OTHER -> "Container"

\* C22: GuessObjectType, given an entry whose objectCategory carries one of
\* the five markers and that the directory holds under that category, returns
\* the typed view of the marker's class (Container for CN=Container and for
\* CN=Organizational-Unit); given something that is not an ADObject it raises
\* ADObjectClassOnlyError.
C22_GuessReturnsTheTypedView ==
  [][/\ CallGuessObjectType(FALSE) => last'.exc = "ADObjectClassOnlyError"
     /\ (/\ CallGuessObjectType(TRUE)
         /\ connected
         /\ object_category(properties)[1] = "str"
         /\ object_category(properties)[2] \in Markers
         /\ server["objectCategory"][1][2] = object_category(properties)[2])
        => (last'.exc = "" /\ last'.ret = ClassOf(object_category(properties)[2]))]_vars

\* ---- two sessions
\* both entries hold the same baseline and a different new description each
SameBaselineDifferentValues ==
  /\ snapshot = peer_snapshot
  /\ properties["description"] # snapshot["description"]
  /\ peer_properties["description"] # snapshot["description"]
  /\ properties["description"] # peer_properties["description"]

\* C23: two sessions hold the entry with the same baseline and commit
\* different values of one attribute: in either order both commits are
\* accepted, each carries its own value against the common baseline, and the
\* directory ends with the value of the commit applied last.
C23_LastWriterWins ==
  SameBaselineDifferentValues =>
    LET a1 == SetProperties(properties, snapshot, aliased, server, connected, "ack")
        b2 == SetProperties(peer_properties, peer_snapshot, {}, a1.server, TRUE, "ack")
        b1 == SetProperties(peer_properties, peer_snapshot, {}, server, TRUE, "ack")
        a2 == SetProperties(properties, snapshot, aliased, b1.server, connected, "ack")
    IN /\ a1.ret = "True" /\ b2.ret = "True"
       /\ b1.ret = "True" /\ a2.ret = "True"
       /\ b2.calls[1].old["description"] = peer_snapshot["description"]
       /\ a2.calls[1].old["description"] = snapshot["description"]
       /\ b2.server["description"] = Wire(peer_properties["description"])
       /\ a2.server["description"] = Wire(properties["description"])
       /\ b2.snapshot = peer_properties
       /\ a2.snapshot = properties

\* the second session committed after the first, both were acknowledged, and
\* the directory holds the second session's value
C23_Witness ==
  /\ last.op = "peer.SetProperties"
  /\ last.ret = "True"
  /\ last.keys = {"description"}
  /\ snapshot = properties
  /\ peer_snapshot = peer_properties
  /\ properties["description"] = <<Bytes("d2")>>
  /\ peer_properties["description"] = <<Bytes("d3")>>
  /\ server["description"] = <<Bytes("d3")>>

\* ---- entries
\* C24: two entries share no mutable state: an assignment to a property of
\* one, however the two were built, changes neither the properties nor the
\* baseline of the other.
C24_EntriesShareNothing ==
  [][\A v \in EntryValues :
       /\ AssignEntry(1, v) =>
            (peer_properties' = peer_properties /\ peer_snapshot' = peer_snapshot)
       /\ AssignEntry(2, v) =>
            (properties' = properties /\ snapshot' = snapshot)]_vars

\* C25: right after a constructor returns (ADObject, User, Computer or Group,
\* given a dict or a list, with or without a fetch of missing mandatory
\* properties) the baseline equals properties, so SetProperties finds nothing
\* changed and transmits an empty changeset.
C25_BaselineEqualsPropertiesAtConstruction ==
  /\ \A cls \in Classes, a \in ConstructorArgs :
       LET c == Construct(cls, a[1], a[2], server, connected)
           r == SetProperties(c.properties, c.snapshot, c.aliased, server, connected, "ack")
       IN c.exc = "" =>
            /\ c.snapshot = c.properties
            /\ c.aliased = {}
            /\ Changed(c.properties, c.snapshot) = {}
            /\ connected => (r.calls[1].new = EmptyMap /\ r.calls[1].old = EmptyMap)
  /\ (last.op \in Classes /\ last.exc = "") => snapshot = properties
  /\ (last.op = "peer" /\ last.exc = "") => peer_snapshot = peer_properties

\* a User was built from a dict that lacked sAMAccountName: the value was
\* fetched, and baseline and properties agree
C25_Witness ==
  /\ last.op = "User"
  /\ last.exc = ""
  /\ held_by = "caller"
  /\ properties["sAMAccountName"] = <<Bytes("obj")>>
  /\ properties["description"] = <<Str("d1")>>
  /\ snapshot = properties

\* C26: on a connected Domain every constructor call returns an entry whose
\* distinguished_name is the dn given, also when the properties are a dict
\* without the distinguishedName key.
C26_DistinguishedNameIsTheOneGiven ==
  [][\A cls \in Classes, a \in ConstructorArgs :
       (NewEntry(cls, a[1], a[2]) /\ connected) =>
         /\ last'.exc = ""
         /\ "distinguishedName" \in DOMAIN properties'
         /\ distinguished_name(properties')[2] = a[1]]_vars

\* C27: Delete sends the delete request for the entry's DN and then empties
\* properties and baseline; when the request raises, on a Domain that is not
\* connected (nothing is sent) or at the store, properties and baseline stay
\* as they were.
C27_DeleteEmptiesAfterTheRemoteDelete ==
  /\ "distinguishedName" \in DOMAIN properties =>
       \A o \in DeleteOutcomes :
         LET r == Delete(properties, snapshot, aliased, server, connected, o)
         IN /\ (connected /\ o = "ok") =>
                 /\ r.exc = ""
                 /\ r.sent = <<"delete_s">>
                 /\ DOMAIN r.properties = {}
                 /\ DOMAIN r.snapshot = {}
                 /\ distinguished_name(properties)[2] = GroupDN => DOMAIN r.server = {}
            /\ ~connected => (r.exc = "ADDomainNotConnectedError" /\ r.sent = <<>>)
            /\ (connected /\ o = "error") => r.exc = "LDAPError"
            /\ r.exc # "" =>
                 (r.properties = properties /\ r.snapshot = snapshot /\ r.server = server)
  /\ (last.op = "Delete" /\ last.exc = "") =>
       (DOMAIN properties = {} /\ DOMAIN snapshot = {})

\* the entry was deleted at the store and emptied
C27_Witness ==
  /\ last.op = "Delete"
  /\ last.exc = ""
  /\ DOMAIN properties = {}
  /\ DOMAIN snapshot = {}
  /\ DOMAIN server = {}
  /\ held_by = "entry"

\* ---- filters
\* the filter as the directory reads it: the assertion value runs from the
\* first attribute description to the first closing parenthesis
AttributeAt(f) == CHOOSE k \in 1..Len(f) :
                    /\ f[k] \in {"sAMAccountName=", "distinguishedName="}
                    /\ \A j \in 1..(k - 1) : f[j] \notin {"sAMAccountName=", "distinguishedName="}
RECURSIVE UpToParenthesis(_)
UpToParenthesis(chars) ==
  IF chars = <<>> \/ Head(chars) = ")" THEN <<>>
  ELSE <<Head(chars)>> \o UpToParenthesis(Tail(chars))
AssertionValue(f) == UpToParenthesis(SubSeq(f, AttributeAt(f) + 1, Len(f)))
AfterValue(f) == SubSeq(f, AttributeAt(f) + Len(AssertionValue(f)) + 1, Len(f))

\* the character two hexadecimal digits stand for, "?" for any other pair
CharOf(h) == IF \E c \in Specials : HexOf(c) = h
             THEN CHOOSE c \in Specials : HexOf(c) = h
             ELSE "?"

\* the text an assertion value denotes; "?" marks a character that is not
\* allowed to stand for itself or an escape that is not complete
RECURSIVE Denoted(_)
Denoted(value) ==
  IF value = <<>> THEN <<>>
  ELSE IF Head(value) = "\\"
  THEN IF Len(value) >= 3
       THEN <<CharOf(SubSeq(value, 2, 3))>> \o Denoted(SubSeq(value, 4, Len(value)))
       ELSE <<"?">>
  ELSE IF Head(value) \in Specials THEN <<"?">> \o Denoted(Tail(value))
  ELSE <<Head(value)>> \o Denoted(Tail(value))

\* C28: the filter every lookup passes to Search holds the caller's text
\* only in escaped form: read as a filter, its assertion value has no
\* unescaped *, (, ), backslash or NUL, denotes exactly the text the lookup
\* interpolated, and is followed by exactly the lookup's own closing text.
C28_FiltersHoldOnlyEscapedText ==
  \A lookup \in FilterLookups, n \in -1..MaxText :
    (lookup = "GetComputerByName" /\ arg[1] = "str" => n <= Len(arg[2])) =>
      LET f == Filter(lookup, arg, n)
          t == Interpolated(lookup, arg, n)
      IN ~Raises(f) =>
           /\ \A i \in 1..Len(AssertionValue(f[2])) :
                AssertionValue(f[2])[i] \notin Specials \ {"\\"}
           /\ Denoted(AssertionValue(f[2])) = ToStr(t)[2]
           /\ AfterValue(f[2]) = FilterTail(lookup)

\* GetUserByDN built its filter from a text that closes a parenthesis and
\* opens a wildcard
C28_Witness ==
  /\ arg = Bytes(<<")", "*">>)
  /\ last.op = "GetUserByDN"
  /\ last.exc = ""
  /\ last.ret = <<"(", "&", "(", "distinguishedName=", "\\", "2", "9", "\\", "2", "a">>
                   \o FilterTail("GetUserByDN")

\* ---- time
\* C29: ADFileTimeToUnix returns the integer quotient of the ticks since the
\* Unix epoch by 10000000: for EPOCH_AS_FILETIME + seconds * 10000000 + ticks
\* with 0 <= ticks < 10000000 it returns seconds, and in particular exactly k
\* for EPOCH_AS_FILETIME + k * 10000000.
C29_ReturnsTheIntegerQuotient ==
  last.op = "ADFileTimeToUnix" => last.ret = arg.seconds

\* ---- flags
\* bit number n of v is set
BitSet(v, n) == (v \div Pow2(n)) % 2 = 1

\* v and mask have a set bit in common
CommonBit(v, mask) == \E n \in 0..30 : BitSet(v, n) /\ BitSet(mask, n)

\* C30: reading a flag is a pure bit test: the reading raises nothing and tells
\* whether the control value and the flag's mask have a set bit in common
\* (for disabled: whether bit 1, the value 2, of userAccountControl is set),
\* and it sends no request and changes neither properties, baseline nor the
\* directory.
C30_FlagsArePureBitTests ==
  [][\A f \in Flags :
       ReadFlag(f) =>
         LET uac == user_account_control(properties)
             computed == msds_ua_control_computed(properties)
         IN /\ properties' = properties
            /\ snapshot' = snapshot
            /\ server' = server
            /\ requests' = requests
            /\ last'.exc = ""
            /\ last'.ret \in {"True", "False"}
            /\ (last'.ret = "True") =
                 CASE f = "disabled" -> CommonBit(uac, ADS_UF_ACCOUNTDISABLE)
                   [] f = "pwd_never_expires" -> CommonBit(uac, ADS_UF_DONT_EXPIRE_PASSWD)
                   [] f = "locked_out" -> CommonBit(computed, ADS_UF_LOCKOUT)
                   [] OTHER -> CommonBit(computed, ADS_UF_PASSWORD_EXPIRED)
            /\ f = "disabled" => ((last'.ret = "True") = BitSet(uac, 1))]_vars

\* disabled was read on an account that is disabled and whose password
\* never expires
C30_Witness ==
  /\ last.op = "disabled"
  /\ last.ret = "True"
  /\ user_account_control(properties) = 66050
  /\ msds_ua_control_computed(properties) = 8388624
  /\ snapshot = properties
  /\ requests = <<>>

\* C31: a User built from a dict whose userAccountControl has the
\* ADS_UF_LOCKOUT bit set reads locked_out as true.
C31_LockoutBitMeansLockedOut ==
  [][(ReadFlag("locked_out") /\ CommonBit(user_account_control(properties), ADS_UF_LOCKOUT))
       => last'.ret = "True"]_vars

\* ---- the paging protocol
\* C32: after a page response Search issues a further page request exactly
\* when the response carries a paging control with a non-empty cookie, and that
\* request carries that cookie; after a response with an empty cookie or with no
\* paging control Search returns its list: no further request, no error.
C32_PagingFollowsTheCookie ==
  [][/\ \A n \in 0..MaxPageLen, c \in Controls :
          SearchResult3(n, c) =>
            IF c = "cookie"
            THEN /\ pc' = "search_ext"
                 /\ lc_cookie' = CookieAt(Position(LastSearchExt.cookie) + n)
                 /\ lc_cookie' # 0
                 /\ last' = last
            ELSE /\ pc' = "idle"
                 /\ last' = Plain("Search", "list", "")
                 /\ requests' = Append(requests, Call("result3"))
     /\ pc = "search_ext" =>
          /\ Len(requests') = Len(requests) + 1
          /\ requests'[Len(requests')].op = "search_ext"
          /\ requests'[Len(requests')].cookie = lc_cookie
     /\ (pc = "result3" /\ pc' = "result3") => requests' = requests]_vars

\* a search of two pages has returned: the second request carried the cookie
\* of the first response and the second response ended the search
C32_Witness ==
  /\ SearchReturned
  /\ PagesSoFar = 2
  /\ LastSearchExt.cookie # 0
  /\ Len(requests) = 4

\* the requests of one kind the search has sent
Sent(op) == Cardinality({i \in 1..Len(requests) : requests[i].op = op})

\* C33: against a store that answers every request and hands out a cookie only
\* finitely often, a Search that has sent its first request eventually returns
\* its list, and when it returns it has sent exactly one request for each page
\* it received.
C33_SearchTerminates ==
  /\ (pc # "idle") ~> SearchReturned
  /\ [](SearchReturned => (Sent("search_ext") = PagesSoFar /\ Len(requests) = 2 * PagesSoFar))

\* a search has returned after the most pages the store hands out
C33_Witness ==
  /\ SearchReturned
  /\ PagesSoFar = MaxPages
  /\ Sent("search_ext") = MaxPages

\* the page requests in the log of the current search
PageRequests == SelectSeq(requests, LAMBDA r : r.op = "search_ext")

\* C34: every page request of one Search is the same query: the requests for
\* the second and later pages have the base DN, the scope and the property list
\* of the first, and differ from it only in the cookie.
C34_EveryPageIsTheSameQuery ==
  \A i \in 1..Len(PageRequests) :
    /\ PageRequests[i].base = PageRequests[1].base
    /\ PageRequests[i].scope = PageRequests[1].scope
    /\ PageRequests[i].attrs = PageRequests[1].attrs
    /\ PageRequests[i].size = PageRequests[1].size

\* ---- post-processing
\* the records that have a key
WithKey(records) == SelectSeq(records, LAMBDA r : r.key # "None")

\* C35: a search that returns builds no entry for a record without key and one
\* entry, of the class asked for, for every other record; the entry's
\* distinguishedName is the one-element list holding the record's key, and each
\* mandatory default attribute holds the value the server sent, or the
\* placeholder [''] when the server sent none.
C35_EntriesAreTheBackfilledRecords ==
  (last.op = "Search" /\ last.ret = "list" /\ arg # <<>>) =>
    /\ Len(results) = Len(WithKey(served))
    /\ \A i \in 1..Len(results) :
         LET r == WithKey(served)[i]
             e == results[i]
         IN /\ e.class = arg[1]
            /\ e.properties["distinguishedName"] = <<Str(r.key)>>
            /\ \A p \in MANDATORY_PROPS_DEFAULT \ {"distinguishedName"} :
                 /\ p \in DOMAIN e.properties
                 /\ e.properties[p] = IF p \in DOMAIN r.attrs THEN r.attrs[p] ELSE <<Str("")>>

\* the same, for the searches whose records hold every property the
\* constructor of the class would otherwise fetch
C35_HoldsWithoutPrefetch ==
  (/\ last.op = "Search" /\ last.ret = "list" /\ arg # <<>>
   /\ \A i \in 1..Len(WithKey(served)) :
        InitChain(arg[1])[Len(InitChain(arg[1]))]
          \subseteq DOMAIN WithKey(served)[i].attrs \cup MANDATORY_PROPS_DEFAULT)
    => C35_EntriesAreTheBackfilledRecords

\* ---- refreshing
\* C36: GetProperties(names) changes, in properties and in the baseline, only
\* the attributes it was asked for and distinguishedName; every other attribute
\* the entry held keeps its value.
C36_GetPropertiesTouchesOnlyTheNamed ==
  [][\A req \in FetchLists :
       CallGetProperties(req) =>
         \A p \in DOMAIN properties \ (req \cup {"distinguishedName"}) :
           /\ properties'[p] = properties[p]
           /\ p \in DOMAIN snapshot => snapshot'[p] = snapshot[p]]_vars

\* C37: in every reachable state the baseline shares no value object with
\* properties, so that changing a property value in place leaves the baseline
\* value as it was.
C37_BaselineSharesNoValueObject == aliased = {}

\* ---- connecting
\* C38: whenever Connect raises, whether the server is down, the credentials
\* are refused or reading the root DSE fails after the bind, the Domain is left
\* not connected.
C38_FailedConnectLeavesNotConnected ==
  [][\A r \in ConnectResults : (Connect(r) /\ last'.exc # "") => ~connected']_vars

\* ---- typed views of a changing directory
\* C39: GuessObjectType, given an ADObject, never returns the empty result
\* None, also when the directory's entry no longer has the category the
\* argument carries.
C39_GuessNeverReturnsNone ==
  [][CallGuessObjectType(TRUE) => last'.ret # "None"]_vars

\* ---- moving
\* C40: after a Move(destination) that does not raise, distinguishedName is a
\* one-element list holding '<first RDN of the old DN>,<destination>', so that
\* distinguished_name is the complete new DN, and exactly one commit was issued,
\* whose changeset contains distinguishedName with the old DN as old value.
C40_MoveStoresTheNewDN ==
  [][\A dest \in Destinations, o \in StoreOutcomes :
       (CallMove(dest, o) /\ last'.exc = "") =>
         LET r == Move(properties, snapshot, aliased, server, connected, dest, o)
             new_dn == Str(FirstRDN.text \o "," \o dest.text)
         IN /\ properties'["distinguishedName"] = <<new_dn>>
            /\ distinguished_name(properties') = new_dn
            /\ last'.ncalls = 1
            /\ "distinguishedName" \in last'.keys
            /\ r.calls[1].old["distinguishedName"] = <<distinguished_name(properties)>>]_vars

====
